---- MODULE Spec2Model ----
(***************************************************************************)
(* A model of two Binaryen passes:                                         *)
(*   - Heap2Local (src/src/passes/Heap2Local.cpp): the escape analysis     *)
(*     (EscapeAnalyzer), the array lowering (Array2Struct) and the         *)
(*     rewriting of a non-escaping allocation into locals (Struct2Local);  *)
(*   - Outlining (src/src/passes/Outlining.cpp): the filter pipeline, the  *)
(*     construction of the sequences and the reconstruction walk.          *)
(* The IR of a function is an arena: a sequence of expression records, an  *)
(* expression being named by its index (its Expression* identity), with    *)
(* the children held as indices.                                           *)
(***************************************************************************)
EXTENDS Integers, Sequences, FiniteSets, TLC

VARIABLES
  nodes,      \* the function's expressions (arena), index = Expression*
  root,       \* func->body
  numLocals,  \* the size of the function's local table (params + vars)
  todo,       \* the allocations Heap2Local has still to process, in order
  alloc,      \* the allocation under analysis (0: none)
  pc,         \* position of Heap2Local: "idle", "analyze", "array2struct",
              \* "struct2local", "done"
  flows,      \* EscapeAnalyzer::escapes: the queue of (child, parent) flows
  processed,  \* the flows that were popped (the queue never repeats them)
  sets,       \* EscapeAnalyzer::sets
  reached,    \* EscapeAnalyzer::reachedInteractions (absent key = None)
  escaped,    \* the result of escapes(): "unknown", "yes", "no"
  refinalize, \* did Array2Struct / Struct2Local ask for a ReFinalize
  fault,      \* did an assert of the pass fail
  orig,       \* the function as it was when Heap2Local was constructed
  before,     \* the function as it was when the analysis of alloc began
  log,        \* what was done to each processed allocation (history)
  ostate      \* the state of the Outlining pass (a record)

vars == <<nodes, root, numLocals, todo, alloc, pc, flows, processed, sets, reached,
          escaped, refinalize, fault, orig, before, log, ostate>>

h2lVars == <<nodes, root, numLocals, todo, alloc, pc, flows, processed, sets,
             reached, escaped, refinalize, fault, orig, before, log>>

-----------------------------------------------------------------------------
(* Types.  A value type is i32, none, unreachable or a reference: a heap    *)
(* type and a nullability.                                                  *)

TI32 == [k |-> "i32", ht |-> "", nul |-> FALSE]
TNone == [k |-> "none", ht |-> "", nul |-> FALSE]
TUnreachable == [k |-> "unreachable", ht |-> "", nul |-> FALSE]
TRef(ht, nul) == [k |-> "ref", ht |-> ht, nul |-> nul]

isRef(t) == t.k = "ref"

\* The declared supertype of each heap type of the modelled module ("" = none).
\* $S <: $Sup are structs, $T is an unrelated struct, $Arr an array of i32,
\* $SD a struct with a descriptor of type $D and itself the descriptor of $X,
\* $R and $SR structs and $ArrR an array of eqref, $A2S the struct type Array2Struct
\* builds, none the bottom type (the type of a null).
SuperOf(ht) ==
  CASE ht = "$S" -> "$Sup"
    [] ht = "$Sup" -> "struct"
    [] ht = "$T" -> "struct"
    [] ht = "$D" -> "struct"
    [] ht = "$SD" -> "struct"
    [] ht = "$A2S" -> "struct"
    [] ht = "$R" -> "struct"
    [] ht = "$SR" -> "struct"
    [] ht = "$X" -> "struct"
    [] ht = "$ArrR" -> "array"
    [] ht = "$Arr" -> "array"
    [] ht = "struct" -> "eq"
    [] ht = "array" -> "eq"
    [] ht = "eq" -> "any"
    [] OTHER -> ""

RECURSIVE HeapIsSubType(_, _)
HeapIsSubType(a, b) ==
  IF a = b \/ a = "none" THEN TRUE
  ELSE IF SuperOf(a) = "" THEN FALSE
  ELSE HeapIsSubType(SuperOf(a), b)

\* Type::isSubType on the types of the model.
isSubType(a, b) ==
  IF isRef(a) /\ isRef(b)
  THEN HeapIsSubType(a.ht, b.ht) /\ (a.nul => b.nul)
  ELSE a = b

-----------------------------------------------------------------------------
(* Expressions.  kind is the Expression id; ch the children in operand      *)
(* order; a an immediate (field index, local index, constant); n the number *)
(* of fields of a struct.new; op a variant; name a label; ty the type; lg   *)
(* the LocalGraph's data for a local.set (its own tag) and a local.get (the *)
(* tags of the sets it may read, 0 standing for the value the local has at  *)
(* function entry).                                                         *)

Nd(kind, ch, a, n, op, name, ty) ==
  [kind |-> kind, ch |-> ch, a |-> a, n |-> n, op |-> op, name |-> name,
   ty |-> ty, lg |-> {}]

\* An operand that is an expression already in the arena.
Ref(id) == [kind |-> "@", id |-> id]

MkConst(v) == Nd("Const", <<>>, v, 0, "", "", TI32)
MkOpaque(v) == Nd("Call", <<>>, v, 0, "i32", "", TI32)
MkRefNull(ht) == Nd("RefNull", <<>>, 0, 0, "", "", TRef("none", TRUE))
MkUnreachable == Nd("Unreachable", <<>>, 0, 0, "", "", TUnreachable)
MkNop == Nd("Nop", <<>>, 0, 0, "", "", TNone)
MkDrop(v) == Nd("Drop", <<v>>, 0, 0, "", "", TNone)
MkLocalGet(i, ty) == Nd("LocalGet", <<>>, i, 0, "", "", ty)
MkLocalSet(i, v) == Nd("LocalSet", <<v>>, i, 0, "", "", TNone)
MkLocalTee(i, v, ty) == Nd("LocalSet", <<v>>, i, 0, "tee", "", ty)
MkBlock(name, list, ty) == Nd("Block", list, 0, 0, "", name, ty)
MkLoop(name, b, ty) == Nd("Loop", <<b>>, 0, 0, "", name, ty)
MkIf(c, t, e, ty) == Nd("If", <<c, t, e>>, 0, 0, "else", "", ty)
MkIf1(c, t) == Nd("If", <<c, t>>, 0, 0, "", "", TNone)
MkBr(name, v) == Nd("Break", <<v>>, 0, 0, "v", name, TUnreachable)
MkBrIf(name, v, c, ty) == Nd("Break", <<v, c>>, 0, 0, "vc", name, ty)
\* br_if without a value
MkBrIfBack(name, c) == Nd("Break", <<c>>, 0, 0, "c", name, TNone)
MkReturn(v) == Nd("Return", <<v>>, 0, 0, "", "", TUnreachable)
MkCall(ops, ty) == Nd("Call", ops, 0, 0, "", "", ty)
MkBinary(op, l, r) == Nd("Binary", <<l, r>>, 0, 0, op, "", TI32)
MkRefIsNull(v) == Nd("RefIsNull", <<v>>, 0, 0, "", "", TI32)
MkRefEq(l, r) == Nd("RefEq", <<l, r>>, 0, 0, "", "", TI32)
MkRefAs(op, v, ty) == Nd("RefAs", <<v>>, 0, 0, op, "", ty)
MkRefTest(v, castType) == Nd("RefTest", <<v>>, 0, 0, castType, "", TI32)
MkRefCast(v, ty) == Nd("RefCast", <<v>>, 0, 0, "", "", ty)
MkRefCastDesc(v, d, ty) == Nd("RefCast", <<v, d>>, 0, 0, "desc", "", ty)
MkRefGetDesc(v, ty) == Nd("RefGetDesc", <<v>>, 0, 0, "", "", ty)
MkStructNew(ht, n, ops) == Nd("StructNew", ops, 0, n, "", "", TRef(ht, FALSE))
MkStructNewDesc(ht, n, ops, d) ==
  Nd("StructNew", ops \o <<d>>, 0, n, "desc", "", TRef(ht, FALSE))
MkStructGet(i, r, ty) == Nd("StructGet", <<r>>, i, 0, "", "", ty)
MkStructSet(i, r, v) == Nd("StructSet", <<r, v>>, i, 0, "", "", TNone)
MkStructRMW(op, i, r, v, ty) == Nd("StructRMW", <<r, v>>, i, 0, op, "", ty)
MkStructCmpxchg(i, r, e, v, ty) == Nd("StructCmpxchg", <<r, e, v>>, i, 0, "", "", ty)
MkArrayNew(ht, size, init) == Nd("ArrayNew", <<size, init>>, 0, 0, "", "", TRef(ht, FALSE))
MkArrayNewDefault(ht, size) == Nd("ArrayNew", <<size>>, 0, 0, "default", "", TRef(ht, FALSE))
MkArrayNewFixed(ht, vals) == Nd("ArrayNewFixed", vals, 0, 0, "", "", TRef(ht, FALSE))
MkArrayGet(r, i, ty) == Nd("ArrayGet", <<r, i>>, 0, 0, "", "", ty)
MkArraySet(r, i, v) == Nd("ArraySet", <<r, i, v>>, 0, 0, "", "", TNone)
MkArrayRMW(op, r, i, v, ty) == Nd("ArrayRMW", <<r, i, v>>, 0, 0, op, "", ty)
MkArrayCmpxchg(r, i, e, v, ty) == Nd("ArrayCmpxchg", <<r, i, e, v>>, 0, 0, "", "", ty)

\* A tree (children held as trees, or as Ref to an expression of the arena)
\* laid out in the arena, children first: what the Builder's make* calls do.
RECURSIVE FlattenT(_, _), FlattenSeq(_, _, _)
FlattenT(t, arena) ==
  IF t.kind = "@" THEN [arena |-> arena, id |-> t.id]
  ELSE LET r == FlattenSeq(t.ch, arena, <<>>)
       IN [arena |-> Append(r.arena, [t EXCEPT !.ch = r.ids]),
           id |-> Len(r.arena) + 1]
FlattenSeq(ts, arena, ids) ==
  IF ts = <<>> THEN [arena |-> arena, ids |-> ids]
  ELSE LET r == FlattenT(Head(ts), arena)
       IN FlattenSeq(Tail(ts), r.arena, Append(ids, r.id))

-----------------------------------------------------------------------------
(* The collaborators of the analysis.  Parents and BranchTargets are built  *)
(* once, when Heap2Local is constructed, from the function as it then is    *)
(* (orig); the LocalGraph's answers are data of the function (field lg).    *)

RECURSIVE ReachSeq(_, _, _)
\* The expressions of the tree under e, e included.
Reach(N, e) == {e} \cup ReachSeq(N, N[e].ch, {})
ReachSeq(N, cs, acc) ==
  IF cs = <<>> THEN acc
  ELSE ReachSeq(N, Tail(cs), acc \cup {Head(cs)} \cup ReachSeq(N, N[Head(cs)].ch, {}))

\* PostWalker's order: every expression after its children, with the slot
\* that holds it (the parent and the operand position; <<0, 0>> is func->body).
RECURSIVE PostOrder(_, _, _, _), PostOrderSeq(_, _, _, _)
PostOrder(N, e, p, k) ==
  PostOrderSeq(N, e, 1, <<>>) \o <<[id |-> e, p |-> p, k |-> k]>>
PostOrderSeq(N, e, k, acc) ==
  IF k > Len(N[e].ch) THEN acc
  ELSE PostOrderSeq(N, e, k + 1, acc \o PostOrder(N, N[e].ch[k], e, k))

OrigIds == Reach(orig.nodes, orig.root)

\* Parents::getParent: 0 is nullptr (the body, or an expression the map
\* does not know).
getParent(e) ==
  LET ps == {p \in OrigIds : \E k \in DOMAIN orig.nodes[p].ch : orig.nodes[p].ch[k] = e}
  IN IF ps = {} THEN 0 ELSE CHOOSE p \in ps : TRUE

\* LocalGraph::getSetInfluences: the gets that may read the set.
getSetInfluences(set) ==
  {g \in OrigIds : orig.nodes[g].kind = "LocalGet"
                   /\ orig.nodes[set].lg \cap orig.nodes[g].lg # {}}

\* LocalGraph::getSets: the sets a get may read; 0 (nullptr) is the value
\* the local has at function entry.
getSets(get) ==
  {s \in OrigIds : orig.nodes[s].kind = "LocalSet"
                   /\ orig.nodes[s].lg \cap orig.nodes[get].lg # {}}
  \cup (IF 0 \in orig.nodes[get].lg THEN {0} ELSE {})

\* BranchUtils::getDefinedName: the label a block or loop defines.
getDefinedName(N, e) ==
  IF N[e].kind \in {"Block", "Loop"} THEN N[e].name ELSE ""

\* BranchTargets::getTarget
getTarget(name) ==
  CHOOSE t \in OrigIds : orig.nodes[t].kind \in {"Block", "Loop"}
                         /\ orig.nodes[t].name = name

\* BranchTargets::getBranches: the branches to a label.
getBranches(name) ==
  IF name = "" THEN {}
  ELSE {b \in OrigIds : orig.nodes[b].kind = "Break" /\ orig.nodes[b].name = name}

\* BranchUtils::getSentValue of a break
getSentValue(N, b) == IF N[b].op \in {"v", "vc"} THEN N[b].ch[1] ELSE 0

\* Properties::getImmediateFallthrough: the child whose value is the value
\* of e, or e itself.
getImmediateFallthrough(N, e) ==
  LET c == N[e] IN
  IF c.ty = TUnreachable THEN e
  ELSE CASE c.kind = "LocalSet" -> IF c.op = "tee" THEN c.ch[1] ELSE e
         [] c.kind = "Block" -> IF c.name = "" /\ Len(c.ch) > 0
                                THEN c.ch[Len(c.ch)] ELSE e
         [] c.kind = "Loop" -> c.ch[1]
         [] c.kind = "If" ->
              IF c.op = "else" THEN
                IF N[c.ch[2]].ty = TUnreachable THEN c.ch[3]
                ELSE IF N[c.ch[3]].ty = TUnreachable THEN c.ch[2] ELSE e
              ELSE e
         [] c.kind = "Break" -> IF c.op = "vc" THEN c.ch[1] ELSE e
         [] c.kind = "RefCast" -> c.ch[1]
         [] c.kind = "RefAs" -> IF c.op = "non_null" THEN c.ch[1] ELSE e
         [] OTHER -> e

-----------------------------------------------------------------------------
(* EscapeAnalyzer::getParentChildInteraction.  Checker: the visitor that    *)
(* classifies the parent, each rule giving the Checker's two fields.        *)

MayEscape == [escapes |-> TRUE, fullyConsumes |-> FALSE]
NoEscape == [escapes |-> FALSE, fullyConsumes |-> FALSE]
Consumed == [escapes |-> FALSE, fullyConsumes |-> TRUE]

\* A Checker whose fields start out as "does not escape".
Checker_init_lax == NoEscape

\* The Checker's fields before the visit (lines 328, 339).
Checker_init == MayEscape

Checker_visitBlock(curr) == NoEscape
Checker_visitLoop(curr) == NoEscape
Checker_visitDrop(curr) == Consumed
Checker_visitBreak(curr) == NoEscape
Checker_visitLocalGet(curr) == NoEscape
Checker_visitLocalSet(curr) == NoEscape
Checker_visitRefIsNull(curr) == Consumed
Checker_visitRefEq(curr) == Consumed
Checker_visitRefAs(curr) == IF curr.op = "non_null" THEN NoEscape ELSE MayEscape
Checker_visitRefTest(curr) == Consumed
Checker_visitRefCast(curr, child, allocType) ==
  IF curr.ch[1] = child
  THEN IF ~isSubType(allocType, curr.ty) THEN Consumed ELSE NoEscape
  ELSE Consumed
Checker_visitRefGetDesc(curr) == Consumed
Checker_visitStructSet(curr, child) ==
  IF curr.ch[1] = child THEN Consumed ELSE MayEscape
Checker_visitStructGet(curr) == Consumed
Checker_visitStructRMW(curr, child) ==
  IF curr.ch[1] = child THEN Consumed ELSE MayEscape
Checker_visitStructCmpxchg(curr, child) ==
  IF curr.ch[1] = child \/ curr.ch[2] = child THEN Consumed ELSE MayEscape
Checker_visitArraySet(N, curr, child) ==
  IF N[curr.ch[2]].kind # "Const" THEN MayEscape
  ELSE IF curr.ch[1] = child THEN Consumed ELSE MayEscape
Checker_visitArrayGet(N, curr) ==
  IF N[curr.ch[2]].kind # "Const" THEN MayEscape ELSE Consumed
Checker_visitArrayRMW(curr, child) ==
  IF curr.ch[1] = child THEN Consumed ELSE MayEscape
\* A rule of array.cmpxchg that looks at no operand.
Checker_visitArrayCmpxchg_anyOperand(curr, child) == Consumed

Checker_visitArrayCmpxchg(curr, child) ==
  IF curr.ch[1] = child \/ curr.ch[3] = child THEN Consumed ELSE MayEscape

\* checker.visit(parent): the rule of the parent's kind; a kind with no rule
\* keeps the Checker's initial fields (escapes = true).
Checker(N, allocation, parent, child) ==
  LET curr == N[parent] IN
  CASE curr.kind = "Block" -> Checker_visitBlock(curr)
    [] curr.kind = "Loop" -> Checker_visitLoop(curr)
    [] curr.kind = "Drop" -> Checker_visitDrop(curr)
    [] curr.kind = "Break" -> Checker_visitBreak(curr)
    [] curr.kind = "LocalGet" -> Checker_visitLocalGet(curr)
    [] curr.kind = "LocalSet" -> Checker_visitLocalSet(curr)
    [] curr.kind = "RefIsNull" -> Checker_visitRefIsNull(curr)
    [] curr.kind = "RefEq" -> Checker_visitRefEq(curr)
    [] curr.kind = "RefAs" -> Checker_visitRefAs(curr)
    [] curr.kind = "RefTest" -> Checker_visitRefTest(curr)
    [] curr.kind = "RefCast" -> Checker_visitRefCast(curr, child, N[allocation].ty)
    [] curr.kind = "RefGetDesc" -> Checker_visitRefGetDesc(curr)
    [] curr.kind = "StructSet" -> Checker_visitStructSet(curr, child)
    [] curr.kind = "StructGet" -> Checker_visitStructGet(curr)
    [] curr.kind = "StructRMW" -> Checker_visitStructRMW(curr, child)
    [] curr.kind = "StructCmpxchg" -> Checker_visitStructCmpxchg(curr, child)
    [] curr.kind = "ArraySet" -> Checker_visitArraySet(N, curr, child)
    [] curr.kind = "ArrayGet" -> Checker_visitArrayGet(N, curr)
    [] curr.kind = "ArrayRMW" -> Checker_visitArrayRMW(curr, child)
    [] curr.kind = "ArrayCmpxchg" -> Checker_visitArrayCmpxchg(curr, child)
    [] OTHER -> Checker_init

\* A check for mixing that lets every value through.
MixCheck_lax(N, parent, child) == "Flows"

\* The check for mixing that follows the Checker (lines 493-518).
MixCheck(N, parent, child) ==
  IF getImmediateFallthrough(N, parent) = child THEN "Flows"
  ELSE LET branches == getBranches(getDefinedName(N, parent)) IN
       IF Cardinality(branches) = 1
          /\ getSentValue(N, CHOOSE b \in branches : TRUE) = child
          /\ N[parent].kind = "Block"
          /\ N[N[parent].ch[Len(N[parent].ch)]].ty = TUnreachable
       THEN "Flows"
       ELSE "Mixes"

\* An analysis whose Checker lets the value through an if.
getParentChildInteraction_ifPasses(N, allocation, parent, child) ==
  IF parent = 0 THEN "Escapes"
  ELSE LET checker == IF N[parent].kind = "If" THEN NoEscape
                      ELSE Checker(N, allocation, parent, child) IN
       IF checker.escapes THEN "Escapes"
       ELSE IF checker.fullyConsumes \/ ~isRef(N[parent].ty) THEN "FullyConsumes"
       ELSE MixCheck(N, parent, child)

getParentChildInteraction(N, allocation, parent, child) ==
  IF parent = 0 THEN "Escapes"
  ELSE LET checker == Checker(N, allocation, parent, child) IN
       IF checker.escapes THEN "Escapes"
       ELSE IF checker.fullyConsumes \/ ~isRef(N[parent].ty) THEN "FullyConsumes"
       ELSE MixCheck(N, parent, child)

\* EscapeAnalyzer::branchesSentByParent: the labels the parent sends child to.
branchesSentByParent(N, child, parent) ==
  IF N[parent].kind = "Break" /\ getSentValue(N, parent) = child
  THEN {N[parent].name} ELSE {}

\* A final check that looks at no get.
getsAreExclusiveToSets_skip(theSets) == TRUE

\* EscapeAnalyzer::getsAreExclusiveToSets
getsAreExclusiveToSets(theSets) ==
  LET gets == UNION {getSetInfluences(set) : set \in theSets}
  IN \A get \in gets : \A set \in getSets(get) : set \in theSets

\* EscapeAnalyzer::getInteraction
RECURSIVE getInteraction(_,_)
getInteraction(r, curr) == IF curr \in DOMAIN r THEN r[curr] ELSE "None"

-----------------------------------------------------------------------------
(* The functions the pass is run on: an allocation, the way its value       *)
(* travels (one or two forwarders) and the expression that uses it, with    *)
(* optionally a second, independent allocation after it.                    *)

\* The number of slots of the arrays, and of operands of array.new_fixed.
ArrSize == 2
\* The largest constant used as an array index is ArrSize + MaxOver.
MaxOver == 1

MkExtern(ht) == Nd("Call", <<>>, 7, 0, "ref", "", TRef(ht, TRUE))
MkCond == MkOpaque(0)
Tagged(t, tags) == [t EXCEPT !.lg = tags]
Label(d) == IF d = 1 THEN "l1" ELSE "l2"
Nullable(t) == TRef(t.ht, TRUE)

AllocTags == {"snew", "sdef", "sref", "sdesc", "sdescNN", "anew", "adef", "afix", "abig"}
IsArrayTag(a) == a \in {"anew", "adef", "afix", "abig"}

Alloc(a) ==
  CASE a = "snew" -> MkStructNew("$S", 2, <<MkConst(42), MkOpaque(1)>>)
    [] a = "sdef" -> MkStructNew("$S", 2, <<>>)
    [] a = "sref" -> MkStructNew("$SR", 1, <<MkExtern("eq")>>)
    [] a = "sdesc" -> MkStructNewDesc("$SD", 1, <<MkOpaque(1)>>, MkExtern("$D"))
    [] a = "sdescNN" ->
         MkStructNewDesc("$SD", 1, <<>>, MkStructNew("$D", 0, <<>>))
    [] a = "anew" -> MkArrayNew("$Arr", MkConst(ArrSize), MkOpaque(1))
    [] a = "adef" -> MkArrayNewDefault("$Arr", MkConst(ArrSize))
    [] a = "afix" ->
         MkArrayNewFixed("$Arr", [i \in 1..ArrSize |-> MkConst(i)])
    [] a = "abig" -> MkArrayNewDefault("$Arr", MkConst(20))

WrapTags == {"id", "block", "brSole", "brFall", "fallBr", "twoBr", "namedNoBr",
             "loop", "tee", "nonnull", "castUp", "castBad", "castStruct", "if",
             "local", "localMix", "localEntry", "localTwoGets", "localLoop"}

\* p = [pre: the statements before the use, val: the expression whose value
\* is the allocation]; d numbers the forwarder (its local and its label).
Wrap(w, p, d) ==
  LET v == p.val
      t == v.ty
      tn == Nullable(t)
      other == MkExtern(t.ht)
      set1 == Tagged(MkLocalSet(d, v), {10 * d + 1})
      set2 == Tagged(MkLocalSet(d, other), {10 * d + 2})
      get(tags) == Tagged(MkLocalGet(d, tn), tags)
  IN
  CASE w = "id" -> p
    [] w = "block" -> [p EXCEPT !.val = MkBlock("", <<MkNop, v>>, t)]
    [] w = "brSole" -> [p EXCEPT !.val = MkBlock(Label(d), <<MkBr(Label(d), v)>>, t)]
    [] w = "brFall" ->
         [p EXCEPT !.val =
            MkBlock(Label(d), <<MkDrop(MkBrIf(Label(d), v, MkCond, t)), other>>, tn)]
    [] w = "fallBr" ->
         [p EXCEPT !.val =
            MkBlock(Label(d), <<MkDrop(MkBrIf(Label(d), other, MkCond, tn)), v>>, tn)]
    [] w = "twoBr" ->
         [p EXCEPT !.val =
            MkBlock(Label(d), <<MkDrop(MkBrIf(Label(d), other, MkCond, tn)),
                                MkBr(Label(d), v)>>, tn)]
    [] w = "namedNoBr" -> [p EXCEPT !.val = MkBlock(Label(d), <<MkNop, v>>, t)]
    [] w = "loop" -> [p EXCEPT !.val = MkLoop("", v, t)]
    [] w = "tee" -> [p EXCEPT !.val = Tagged(MkLocalTee(d, v, t), {10 * d + 1})]
    [] w = "nonnull" -> [p EXCEPT !.val = MkRefAs("non_null", v, TRef(t.ht, FALSE))]
    [] w = "castUp" -> [p EXCEPT !.val = MkRefCast(v, TRef(SuperOf(t.ht), FALSE))]
    [] w = "castBad" -> [p EXCEPT !.val = MkRefCast(v, TRef("$T", FALSE))]
    [] w = "castStruct" -> [p EXCEPT !.val = MkRefCast(v, TRef("struct", FALSE))]
    [] w = "if" -> [p EXCEPT !.val = MkIf(MkCond, v, other, tn)]
    [] w = "local" ->
         [pre |-> Append(p.pre, set1), val |-> get({10 * d + 1})]
    [] w = "localMix" ->
         [pre |-> Append(p.pre, MkIf(MkCond, set1, set2, TNone)),
          val |-> get({10 * d + 1, 10 * d + 2})]
    [] w = "localEntry" ->
         [pre |-> Append(p.pre, MkIf1(MkCond, set1)),
          val |-> get({10 * d + 1, 0})]
    [] w = "localTwoGets" ->
         [pre |-> p.pre \o <<set1, MkDrop(MkStructGet(0, get({10 * d + 1}), TI32))>>,
          val |-> get({10 * d + 1})]
    \* A loop that copies the local to itself: the get in it reads the set
    \* before the loop and the set in the loop, whose value it is.
    [] w = "localLoop" ->
         [pre |-> p.pre \o
                    <<set1,
                      MkLoop(Label(d),
                             MkBlock("", <<Tagged(MkLocalSet(d, get({10 * d + 1, 10 * d + 3})),
                                                  {10 * d + 3}),
                                           MkBrIfBack(Label(d), MkConst(0))>>, TNone),
                             TNone)>>,
          val |-> get({10 * d + 3})]

\* The uses that fit every reference, a struct, an array.
AnyUses == {"drop", "call", "return", "result", "isnull", "refeq", "refeqSelf",
            "test", "testBad", "ssetVal", "scasExp", "scasRep", "asetVal",
            "srmwVal", "armwVal", "acasRep"}
StructUses == {"sget", "sset", "srmw", "sxchg", "scas", "srmwSet", "scasRef"}
DescUses == {"getdesc", "castDesc", "castDescAsDesc"}
ArrayUses == {"aget", "agetVar", "aset", "asetVar", "armw", "armwVar",
              "acas", "acasVar", "acasExp"}
\* The constant indexes used by the array accesses (-1 is 2^32 - 1 unsigned).
Indexes == (0 .. ArrSize + MaxOver) \cup {-1}

\* The statement that uses v; i is the constant index of an array access.
Use(u, v, i) ==
  LET t == v.ty
      idx == MkConst(i)
      var == MkOpaque(3)
      arr == MkExtern("$ArrR")
      eqref == TRef("eq", TRUE)
  IN
  CASE u = "drop" -> MkDrop(v)
    [] u = "call" -> MkCall(<<v>>, TNone)
    [] u = "return" -> MkReturn(v)
    [] u = "result" -> v
    [] u = "isnull" -> MkDrop(MkRefIsNull(v))
    [] u = "refeq" -> MkDrop(MkRefEq(v, MkExtern(t.ht)))
    [] u = "refeqSelf" ->
         MkDrop(MkRefEq(Tagged(MkLocalTee(3, v, t), {31}),
                        Tagged(MkLocalGet(3, Nullable(t)), {31})))
    [] u = "test" -> MkDrop(MkRefTest(v, "eq"))
    [] u = "testBad" -> MkDrop(MkRefTest(v, "$T"))
    [] u = "ssetVal" -> MkStructSet(0, MkExtern("$R"), v)
    [] u = "scasExp" ->
         MkDrop(MkStructCmpxchg(0, MkExtern("$R"), v, MkExtern("eq"), eqref))
    [] u = "scasRep" ->
         MkDrop(MkStructCmpxchg(0, MkExtern("$R"), MkRefNull("none"), v, eqref))
    [] u = "asetVal" -> MkArraySet(arr, MkConst(0), v)
    [] u = "srmwVal" -> MkDrop(MkStructRMW("xchg", 0, MkExtern("$R"), v, eqref))
    [] u = "armwVal" -> MkDrop(MkArrayRMW("xchg", arr, MkConst(0), v, eqref))
    [] u = "acasRep" ->
         MkDrop(MkArrayCmpxchg(arr, MkConst(0), MkRefNull("none"), v, eqref))
    [] u = "sget" -> MkCall(<<MkStructGet(0, v, TI32)>>, TNone)
    [] u = "sset" -> MkStructSet(0, v, MkOpaque(2))
    [] u = "srmw" -> MkCall(<<MkStructRMW("add", 0, v, MkOpaque(2), TI32)>>, TNone)
    [] u = "sxchg" -> MkCall(<<MkStructRMW("xchg", 0, v, MkOpaque(2), TI32)>>, TNone)
    [] u = "scas" ->
         MkCall(<<MkStructCmpxchg(0, v, MkConst(42), MkOpaque(2), TI32)>>, TNone)
    [] u = "scasRef" ->
         MkDrop(MkStructCmpxchg(0, v, MkRefNull("none"), MkExtern("eq"), eqref))
    [] u = "srmwSet" ->
         MkCall(<<MkStructRMW("add", 0, Tagged(MkLocalTee(3, v, t), {31}),
                    MkBlock("", <<MkStructSet(0, Tagged(MkLocalGet(3, Nullable(t)), {31}),
                                              MkConst(5)),
                                  MkOpaque(2)>>, TI32),
                    TI32)>>, TNone)
    [] u = "getdesc" -> MkDrop(MkRefGetDesc(v, TRef("$D", FALSE)))
    [] u = "castDesc" -> MkDrop(MkRefCastDesc(v, MkExtern("$D"), TRef("$SD", FALSE)))
    [] u = "castDescAsDesc" ->
         MkDrop(MkRefCastDesc(MkExtern("$X"), v, TRef("$X", TRUE)))
    [] u = "aget" -> MkCall(<<MkArrayGet(v, idx, TI32)>>, TNone)
    [] u = "agetVar" -> MkCall(<<MkArrayGet(v, var, TI32)>>, TNone)
    [] u = "aset" -> MkArraySet(v, idx, MkOpaque(2))
    [] u = "asetVar" -> MkArraySet(v, var, MkOpaque(2))
    [] u = "armw" -> MkCall(<<MkArrayRMW("add", v, idx, MkOpaque(2), TI32)>>, TNone)
    [] u = "armwVar" -> MkCall(<<MkArrayRMW("add", v, var, MkOpaque(2), TI32)>>, TNone)
    [] u = "acas" ->
         MkCall(<<MkArrayCmpxchg(v, idx, MkConst(1), MkOpaque(2), TI32)>>, TNone)
    [] u = "acasVar" ->
         MkCall(<<MkArrayCmpxchg(v, var, MkConst(1), MkOpaque(2), TI32)>>, TNone)
    [] u = "acasExp" ->
         MkDrop(MkArrayCmpxchg(arr, idx, v, MkExtern("eq"), eqref))

\* A second allocation, after the use of the first.
ExtraTags == {"none", "kept", "lowered"}
Extra(x) ==
  CASE x = "none" -> <<>>
    [] x = "kept" -> <<MkCall(<<MkStructNew("$T", 1, <<>>)>>, TNone)>>
    [] x = "lowered" ->
         <<MkCall(<<MkStructGet(0, MkStructNew("$T", 1, <<MkOpaque(4)>>), TI32)>>, TNone)>>

UsesConstIndex(u) == u \in {"aget", "aset", "armw", "acas", "acasExp"}

\* The shapes of the functions: which forwarders and uses go together.
Shapes ==
  {sh \in [a : AllocTags, w1 : WrapTags, w2 : {"id", "block", "local", "castUp"},
           u : AnyUses \cup StructUses \cup DescUses \cup ArrayUses,
           i : Indexes, x : ExtraTags, again : BOOLEAN] :
     /\ (sh.u \in StructUses => ~IsArrayTag(sh.a))
     /\ (sh.u \in DescUses => sh.a \in {"sdesc", "sdescNN"})
     /\ (sh.u \in ArrayUses => IsArrayTag(sh.a))
     /\ (sh.w1 = "localTwoGets" => ~IsArrayTag(sh.a))
     /\ (sh.w1 = "castBad" => sh.u \notin StructUses \cup DescUses \cup ArrayUses)
     /\ (sh.w1 = "castStruct" => IsArrayTag(sh.a) /\ sh.u \in AnyUses)
     /\ (sh.a = "sref" <=> sh.u = "scasRef")
     /\ (sh.a = "sref" => sh.w1 \in {"id", "local"} /\ sh.w2 = "id" /\ sh.x = "none")
     /\ (sh.again => /\ sh.a \in {"snew", "sdef", "sdesc"}
                     /\ sh.w1 \in {"id", "local"} /\ sh.w2 = "id"
                     /\ sh.u \in StructUses /\ sh.x = "none")
     /\ ("castUp" \in {sh.w1, sh.w2} =>
           /\ sh.u \notin DescUses \cup ArrayUses
           /\ (sh.u \in StructUses => sh.a \in {"snew", "sdef"})
           /\ sh.w1 # sh.w2)
     /\ (sh.u = "result" => sh.x = "none")
     /\ (~UsesConstIndex(sh.u) => sh.i = 0)
     /\ (sh.w2 # "id" => sh.w1 \in {"id", "block", "local", "nonnull"} /\ sh.i = 0)
     /\ (sh.x # "none" => sh.w2 = "id" /\ sh.w1 \in {"id", "local"} /\ sh.i = 0)}

\* A loop that runs the statements two times: local 0 counts the runs.
Twice(list) ==
  LET count == Tagged(MkLocalTee(0, MkBinary("add", Tagged(MkLocalGet(0, TI32), {0, 90}),
                                             MkConst(1)), TI32), {90})
  IN MkLoop("again",
            MkBlock("", Append(list, MkBrIfBack("again", MkBinary("eq", count, MkConst(1)))),
                    TNone),
            TNone)

\* The body of a function of the given shape.
Body(sh) ==
  LET p == Wrap(sh.w2, Wrap(sh.w1, [pre |-> <<>>, val |-> Alloc(sh.a)], 1), 2)
      use == Use(sh.u, p.val, sh.i)
      list == Append(p.pre, use) \o Extra(sh.x)
  IN IF sh.again THEN Twice(list)
     ELSE IF Len(list) = 1 THEN use ELSE MkBlock("", list, list[Len(list)].ty)

\* The locals the functions declare: 0 is a parameter, 1 and 2 the locals of
\* the forwarders, 3 the local of refeqSelf.
DeclaredLocals == 4

-----------------------------------------------------------------------------
(* The rewriting walks.  W is what a walk changes: the function (nodes,     *)
(* root, numLocals), the analyzer's map (reached), the walker's refinalize  *)
(* flag, and fault: whether an assert failed.                               *)

\* The i32 of the model is 16 bits wide (the checker's integers cannot hold
\* 2^32): a constant is in -2^15 .. 2^15 - 1 and its unsigned value below 2^16.
WordSize == 65536

\* Literal::getUnsigned of an i32 constant
getUnsigned(v) == v % WordSize

\* The type of the fields of a struct type (all the fields of a type of the
\* model have one type), and of the elements of the array type.
FieldType(ht) == IF ht \in {"$R", "$ArrR", "$SR"} THEN TRef("eq", TRUE) ELSE TI32

\* Block::finalize of an unnamed block with these children.
BlockType(N, list) ==
  IF list = <<>> THEN TNone
  ELSE LET last == N[list[Len(list)]].ty IN
       IF last.k \in {"i32", "ref"} THEN last
       ELSE IF \E i \in DOMAIN list : N[list[i]].ty = TUnreachable
            THEN TUnreachable ELSE last

\* Builder::addVar: the index of the new local is the number of locals.
RECURSIVE addVar(_)
addVar(W) == [W EXCEPT !.numLocals = @ + 1]

\* Builder::make*: the expression is added to the arena.
RECURSIVE Make(_,_)
Make(W, term) ==
  LET r == FlattenT(term, W.nodes) IN [w |-> [W EXCEPT !.nodes = r.arena], id |-> r.id]

\* Builder::makeBlock / makeSequence / blockify of expressions of the arena.
RECURSIVE MakeBlockOf(_,_)
MakeBlockOf(W, list) ==
  LET r == FlattenSeq(list, W.nodes, <<>>)
      b == [MkBlock("", r.ids, BlockType(r.arena, r.ids)) EXCEPT !.ch = r.ids]
  IN [w |-> [W EXCEPT !.nodes = Append(r.arena, b)], id |-> Len(r.arena) + 1]

\* Builder::makeDrop: the drop of an unreachable value is unreachable.
RECURSIVE DropOf(_,_)
DropOf(W, v) ==
  [MkDrop(Ref(v)) EXCEPT !.ty = IF W.nodes[v].ty = TUnreachable
                                 THEN TUnreachable ELSE TNone]

\* EscapeAnalyzer::applyOldInteractionToReplacement
RECURSIVE applyOldInteractionToReplacement(_,_,_)
applyOldInteractionToReplacement(W, old, rep) ==
  LET W1 == IF old \in DOMAIN W.reached THEN W ELSE [W EXCEPT !.fault = TRUE]
  IN IF W1.nodes[rep].ty # TUnreachable
     THEN [W1 EXCEPT !.reached =
             [e \in DOMAIN W.reached \cup {rep} |->
                IF e = rep THEN getInteraction(W.reached, old) ELSE W.reached[e]]]
     ELSE W1

\* replaceCurrent of both walkers: rep (an expression of the arena) takes the
\* slot of the current expression.
RECURSIVE replaceCurrent(_,_,_)
replaceCurrent(W, slot, rep) ==
  LET W1 == applyOldInteractionToReplacement(W, slot.id, rep)
  IN IF slot.p = 0 THEN [W1 EXCEPT !.root = rep]
     ELSE [W1 EXCEPT !.nodes[slot.p].ch[slot.k] = rep]

\* replaceCurrent(builder.make...(...))
RECURSIVE replaceWith(_,_,_)
replaceWith(W, slot, term) ==
  LET m == Make(W, term) IN replaceCurrent(m.w, slot, m.id)

\* replaceCurrent(builder.makeBlock({...}))
RECURSIVE replaceWithBlock(_,_,_)
replaceWithBlock(W, slot, list) ==
  LET m == MakeBlockOf(W, list) IN replaceCurrent(m.w, slot, m.id)

-----------------------------------------------------------------------------
(* Struct2Local.  C is the walker's fixed data: allocation, n (the number   *)
(* of fields), desc (has the allocation a descriptor), descTy, ht (the heap *)
(* type) and localIndexes (a sequence: field i is localIndexes[i + 1], the  *)
(* descriptor localIndexes[n + 1]).  slot.id is the current expression.     *)

S2L_adjustTypeFlowingThrough(W, e) ==
  IF getInteraction(W.reached, e) # "Flows" THEN W
  ELSE IF ~isRef(W.nodes[e].ty) THEN [W EXCEPT !.fault = TRUE]
  ELSE [W EXCEPT !.nodes[e].ty = TRef(@.ht, TRUE)]

S2L_visitBlock(W, slot) == S2L_adjustTypeFlowingThrough(W, slot.id)

S2L_visitLoop(W, slot) == S2L_adjustTypeFlowingThrough(W, slot.id)

S2L_visitLocalSet(W, slot) ==
  LET curr == W.nodes[slot.id] IN
  IF getInteraction(W.reached, slot.id) = "None" THEN W
  ELSE IF curr.op = "tee" THEN replaceCurrent(W, slot, curr.ch[1])
  ELSE replaceWith(W, slot, DropOf(W, curr.ch[1]))

\* visitLocalGet leaving every get in place.
S2L_visitLocalGet_keeps(W, slot) == W

S2L_visitLocalGet(W, slot) ==
  IF getInteraction(W.reached, slot.id) = "None" THEN W
  ELSE replaceWith(W, slot, MkRefNull(W.nodes[slot.id].ty.ht))

\* Break::finalize
BreakType(N, curr) ==
  IF curr.op = "vc"
  THEN IF N[curr.ch[2]].ty = TUnreachable THEN TUnreachable ELSE N[curr.ch[1]].ty
  ELSE IF curr.op = "c"
  THEN IF N[curr.ch[1]].ty = TUnreachable THEN TUnreachable ELSE TNone
  ELSE TUnreachable

S2L_visitBreak(W, slot) ==
  IF getInteraction(W.reached, slot.id) = "None" THEN W
  ELSE [W EXCEPT !.nodes[slot.id].ty = BreakType(W.nodes, W.nodes[slot.id])]

\* Literal::makeZero as an expression
ZeroOf(t) == IF isRef(t) THEN MkRefNull(t.ht) ELSE MkConst(0)

\* The operands of a struct.new, without its descriptor.
Operands(curr) ==
  IF curr.op = "desc" THEN SubSeq(curr.ch, 1, Len(curr.ch) - 1) ELSE curr.ch

\* The descriptor stored as it is, null or not.
DescriptorValue_bare(N, desc) == Ref(desc)

\* The descriptor operand as Struct2Local stores it (lines 757-765).
DescriptorValue(N, desc) ==
  IF N[desc].ty.nul
  THEN MkRefAs("non_null", Ref(desc), TRef(N[desc].ty.ht, FALSE))
  ELSE Ref(desc)

\* A rewriting of struct.new that writes each operand to its field's local
\* as soon as it is computed.
S2L_visitStructNew_unstaged(W, slot, C) ==
  IF slot.id # C.allocation THEN W
  ELSE
    LET curr == W.nodes[slot.id]
        operands == Operands(curr)
        toFields == [i \in 1..C.n |->
                       MkLocalSet(C.localIndexes[i],
                                  IF operands = <<>> THEN ZeroOf(FieldType(C.ht))
                                  ELSE Ref(operands[i]))]
        descToField == IF C.desc
                       THEN <<MkLocalSet(C.localIndexes[C.n + 1],
                                         DescriptorValue(W.nodes, curr.ch[Len(curr.ch)]))>>
                       ELSE <<>>
    IN replaceWithBlock(W, slot, toFields \o descToField \o <<MkRefNull(C.ht)>>)

S2L_visitStructNew(W, slot, C) ==
  IF slot.id # C.allocation THEN W
  ELSE
    LET curr == W.nodes[slot.id]
        operands == Operands(curr)
        isWithDefault == operands = <<>>
        fty == FieldType(C.ht)
        numTemps == (IF isWithDefault THEN 0 ELSE C.n) + (IF C.desc THEN 1 ELSE 0)
        tempIndexes == [i \in 1..numTemps |-> W.numLocals + i - 1]
        W1 == [W EXCEPT !.numLocals = @ + numTemps]
        desc == curr.ch[Len(curr.ch)]
        toTemps == IF isWithDefault THEN <<>>
                   ELSE [i \in 1..C.n |-> MkLocalSet(tempIndexes[i], Ref(operands[i]))]
        descToTemp == IF C.desc
                      THEN <<MkLocalSet(tempIndexes[numTemps],
                                        DescriptorValue(W.nodes, desc))>>
                      ELSE <<>>
        toFields == [i \in 1..C.n |->
                       MkLocalSet(C.localIndexes[i],
                                  IF isWithDefault THEN ZeroOf(fty)
                                  ELSE MkLocalGet(tempIndexes[i], fty))]
        descToField == IF C.desc
                       THEN <<MkLocalSet(C.localIndexes[C.n + 1],
                                         MkLocalGet(tempIndexes[numTemps], C.descTy))>>
                       ELSE <<>>
    IN replaceWithBlock(W1, slot,
         toTemps \o descToTemp \o toFields \o descToField \o <<MkRefNull(C.ht)>>)

S2L_visitRefIsNull(W, slot) ==
  IF getInteraction(W.reached, slot.id) = "None" THEN W
  ELSE replaceWithBlock(W, slot, <<DropOf(W, slot.id), MkConst(0)>>)

S2L_visitRefEq(W, slot) ==
  LET curr == W.nodes[slot.id] IN
  IF getInteraction(W.reached, slot.id) = "None" THEN W
  ELSE IF curr.ty = TUnreachable THEN W
  ELSE LET result == IF /\ getInteraction(W.reached, curr.ch[1]) = "Flows"
                        /\ getInteraction(W.reached, curr.ch[2]) = "Flows"
                     THEN 1 ELSE 0
       IN replaceWithBlock(W, slot, <<DropOf(W, curr.ch[1]), DropOf(W, curr.ch[2]),
                                      MkConst(result)>>)

S2L_visitRefAs(W, slot) ==
  LET curr == W.nodes[slot.id] IN
  IF getInteraction(W.reached, slot.id) = "None" THEN W
  ELSE LET W1 == IF curr.op = "non_null" THEN W ELSE [W EXCEPT !.fault = TRUE]
       IN replaceCurrent(W1, slot, curr.ch[1])

S2L_visitRefTest(W, slot, C) ==
  LET curr == W.nodes[slot.id] IN
  IF getInteraction(W.reached, slot.id) = "None" THEN W
  ELSE LET result == IF isSubType(W.nodes[C.allocation].ty, TRef(curr.op, FALSE))
                     THEN 1 ELSE 0
       IN replaceWithBlock(W, slot, <<DropOf(W, curr.ch[1]), MkConst(result)>>)

\* The ref.cast_desc that lets only a null through (lines 872-883).
S2L_castToNull(W, slot) ==
  LET curr == W.nodes[slot.id]
      scratch == W.numLocals
      refTy == W.nodes[curr.ch[1]].ty
      W1 == replaceWithBlock(addVar(W), slot,
              <<MkLocalSet(scratch, Ref(curr.ch[1])), DropOf(W, curr.ch[2]),
                Ref(slot.id)>>)
      m == Make(W1, MkLocalGet(scratch, refTy))
  IN [m.w EXCEPT !.nodes[slot.id] =
        [@ EXCEPT !.ch = <<m.id>>, !.op = "", !.ty = TRef("none", curr.ty.nul)]]

\* A rewriting of ref.cast that takes every cast for one that succeeds.
S2L_visitRefCast_alwaysSkips(W, slot, C) ==
  LET curr == W.nodes[slot.id] IN
  IF getInteraction(W.reached, slot.id) = "None" THEN W
  ELSE [replaceCurrent(W, slot, curr.ch[1]) EXCEPT !.refinalize = TRUE]

S2L_visitRefCast(W, slot, C) ==
  LET curr == W.nodes[slot.id] IN
  IF getInteraction(W.reached, slot.id) = "None" THEN W
  ELSE
    LET W1 ==
      IF curr.op = "desc" THEN
        LET allocIsCastRef == getInteraction(W.reached, curr.ch[1]) = "Flows"
            allocIsCastDesc == getInteraction(W.reached, curr.ch[2]) = "Flows"
        IN IF ~C.desc \/ allocIsCastDesc
           THEN IF allocIsCastDesc /\ ~allocIsCastRef /\ curr.ty.nul
                THEN S2L_castToNull(W, slot)
                ELSE replaceWithBlock(W, slot,
                       <<DropOf(W, curr.ch[1]), DropOf(W, curr.ch[2]), MkUnreachable>>)
           ELSE LET W0 == IF allocIsCastRef THEN W ELSE [W EXCEPT !.fault = TRUE]
                IN replaceWithBlock(W0, slot,
                     <<DropOf(W, curr.ch[1]),
                       MkIf(MkRefEq(Ref(curr.ch[2]),
                                    MkLocalGet(C.localIndexes[C.n + 1], C.descTy)),
                            MkRefNull(C.ht), MkUnreachable, TRef("none", TRUE))>>)
      ELSE IF isSubType(W.nodes[C.allocation].ty, curr.ty)
           THEN replaceCurrent(W, slot, curr.ch[1])
           ELSE replaceWithBlock(W, slot, <<DropOf(W, curr.ch[1]), MkUnreachable>>)
    IN [W1 EXCEPT !.refinalize = TRUE]

S2L_visitRefGetDesc(W, slot, C) ==
  LET curr == W.nodes[slot.id] IN
  IF getInteraction(W.reached, slot.id) = "None" THEN W
  ELSE LET W1 == IF C.descTy # curr.ty THEN [W EXCEPT !.refinalize = TRUE] ELSE W
       IN replaceWithBlock(W1, slot,
            <<DropOf(W, curr.ch[1]), MkLocalGet(C.localIndexes[C.n + 1], C.descTy)>>)

S2L_visitStructSet(W, slot, C) ==
  LET curr == W.nodes[slot.id] IN
  IF getInteraction(W.reached, slot.id) = "None" THEN W
  ELSE replaceWithBlock(W, slot,
         <<DropOf(W, curr.ch[1]),
           MkLocalSet(C.localIndexes[curr.a + 1], Ref(curr.ch[2]))>>)

S2L_visitStructGet(W, slot, C) ==
  LET curr == W.nodes[slot.id]
      type == FieldType(C.ht)
  IN
  IF getInteraction(W.reached, slot.id) = "None" THEN W
  ELSE LET W1 == IF type # curr.ty THEN [W EXCEPT !.refinalize = TRUE] ELSE W
       IN replaceWithBlock(W1, slot,
            <<DropOf(W, curr.ch[1]), MkLocalGet(C.localIndexes[curr.a + 1], type)>>)

\* The value struct.rmw stores (lines 1023-1050).
RMWNewValue(op, local, valScratch, type) ==
  IF op = "xchg" THEN MkLocalGet(valScratch, type)
  ELSE MkBinary(op, MkLocalGet(local, type), MkLocalGet(valScratch, type))

\* A rewriting of struct.rmw that reads the old value before it computes
\* the operand.
S2L_visitStructRMW_oldFirst(W, slot, C) ==
  LET curr == W.nodes[slot.id]
      type == curr.ty
      oldScratch == W.numLocals
      valScratch == W.numLocals + 1
      local == C.localIndexes[curr.a + 1]
      m == MakeBlockOf(addVar(addVar(W)),
             <<DropOf(W, curr.ch[1]),
               MkLocalSet(oldScratch, MkLocalGet(local, type)),
               MkLocalSet(valScratch, Ref(curr.ch[2])),
               MkLocalSet(local, RMWNewValue(curr.op, oldScratch, valScratch, type)),
               MkLocalGet(oldScratch, type)>>)
  IN
  IF getInteraction(W.reached, slot.id) = "None" THEN W
  ELSE replaceCurrent([m.w EXCEPT !.nodes[m.id].ty = type], slot, m.id)

S2L_visitStructRMW(W, slot, C) ==
  LET curr == W.nodes[slot.id]
      type == curr.ty
      oldScratch == W.numLocals
      valScratch == W.numLocals + 1
      local == C.localIndexes[curr.a + 1]
      W1 == IF type = FieldType(C.ht) THEN W ELSE [W EXCEPT !.fault = TRUE]
      W2 == addVar(addVar(W1))
      m == MakeBlockOf(W2,
             <<DropOf(W, curr.ch[1]),
               MkLocalSet(valScratch, Ref(curr.ch[2])),
               MkLocalSet(oldScratch, MkLocalGet(local, type)),
               MkLocalSet(local, RMWNewValue(curr.op, local, valScratch, type)),
               MkLocalGet(oldScratch, type)>>)
  IN
  IF getInteraction(W.reached, slot.id) = "None" THEN W
  ELSE replaceCurrent([m.w EXCEPT !.nodes[m.id].ty = type], slot, m.id)

\* A rewriting of struct.cmpxchg that stores the replacement whatever the
\* field holds.
S2L_visitStructCmpxchg_always(W, slot, C) ==
  LET curr == W.nodes[slot.id]
      type == curr.ty
      oldScratch == W.numLocals
      expectedScratch == W.numLocals + 1
      replacementScratch == W.numLocals + 2
      local == C.localIndexes[curr.a + 1]
      m == MakeBlockOf(addVar(addVar(addVar(W))),
             <<DropOf(W, curr.ch[1]),
               MkLocalSet(expectedScratch, Ref(curr.ch[2])),
               MkLocalSet(replacementScratch, Ref(curr.ch[3])),
               MkLocalSet(oldScratch, MkLocalGet(local, type)),
               MkLocalSet(local, MkLocalGet(replacementScratch, type)),
               MkLocalGet(oldScratch, type)>>)
  IN
  IF getInteraction(W.reached, curr.ch[1]) # "Flows" THEN W
  ELSE replaceCurrent([m.w EXCEPT !.nodes[m.id].ty = type], slot, m.id)

S2L_visitStructCmpxchg(W, slot, C) ==
  LET curr == W.nodes[slot.id]
      type == curr.ty
      oldScratch == W.numLocals
      expectedScratch == W.numLocals + 1
      replacementScratch == W.numLocals + 2
      local == C.localIndexes[curr.a + 1]
      W1 == IF type = FieldType(C.ht) THEN W ELSE [W EXCEPT !.fault = TRUE]
      W2 == addVar(addVar(addVar(W1)))
      lhs == MkLocalGet(local, type)
      rhs == MkLocalGet(expectedScratch, type)
      pred == IF isRef(type) THEN MkRefEq(lhs, rhs) ELSE MkBinary("eq", lhs, rhs)
      m == MakeBlockOf(W2,
             <<DropOf(W, curr.ch[1]),
               MkLocalSet(expectedScratch, Ref(curr.ch[2])),
               MkLocalSet(replacementScratch, Ref(curr.ch[3])),
               MkLocalSet(oldScratch, MkLocalGet(local, type)),
               MkIf1(pred, MkLocalSet(local, MkLocalGet(replacementScratch, type))),
               MkLocalGet(oldScratch, type)>>)
  IN
  IF getInteraction(W.reached, curr.ch[1]) # "Flows" THEN W
  ELSE replaceCurrent([m.w EXCEPT !.nodes[m.id].ty = type], slot, m.id)

\* The visit of one expression by Struct2Local.
RECURSIVE S2L_visit(_,_,_)
S2L_visit(W, slot, C) ==
  LET kind == W.nodes[slot.id].kind IN
  CASE kind = "Block" -> S2L_visitBlock(W, slot)
    [] kind = "Loop" -> S2L_visitLoop(W, slot)
    [] kind = "LocalSet" -> S2L_visitLocalSet(W, slot)
    [] kind = "LocalGet" -> S2L_visitLocalGet(W, slot)
    [] kind = "Break" -> S2L_visitBreak(W, slot)
    [] kind = "StructNew" -> S2L_visitStructNew(W, slot, C)
    [] kind = "RefIsNull" -> S2L_visitRefIsNull(W, slot)
    [] kind = "RefEq" -> S2L_visitRefEq(W, slot)
    [] kind = "RefAs" -> S2L_visitRefAs(W, slot)
    [] kind = "RefTest" -> S2L_visitRefTest(W, slot, C)
    [] kind = "RefCast" -> S2L_visitRefCast(W, slot, C)
    [] kind = "RefGetDesc" -> S2L_visitRefGetDesc(W, slot, C)
    [] kind = "StructSet" -> S2L_visitStructSet(W, slot, C)
    [] kind = "StructGet" -> S2L_visitStructGet(W, slot, C)
    [] kind = "StructRMW" -> S2L_visitStructRMW(W, slot, C)
    [] kind = "StructCmpxchg" -> S2L_visitStructCmpxchg(W, slot, C)
    [] OTHER -> W

RECURSIVE S2L_walk(_, _, _)
S2L_walk(W, order, C) ==
  IF order = <<>> THEN W
  ELSE S2L_walk(S2L_visit(W, Head(order), C), Tail(order), C)

\* ReFinalize: every type is computed again from the children, children
\* first.  The type of one expression:
ReFinalizedType(N, e) ==
  LET c == N[e]
      dead == \E k \in DOMAIN c.ch : N[c.ch[k]].ty = TUnreachable
  IN
  CASE c.kind = "Block" -> IF c.name = "" THEN BlockType(N, c.ch) ELSE c.ty
    [] c.kind = "Loop" -> N[c.ch[1]].ty
    [] c.kind = "If" ->
         IF N[c.ch[1]].ty = TUnreachable THEN TUnreachable
         ELSE IF c.op = "else" /\ N[c.ch[2]].ty = TUnreachable
                 /\ N[c.ch[3]].ty = TUnreachable
              THEN TUnreachable ELSE c.ty
    [] c.kind = "Break" -> BreakType(N, c)
    [] OTHER -> IF dead THEN TUnreachable ELSE c.ty

RECURSIVE ReFinalizeWalk(_, _)
ReFinalizeWalk(N, order) ==
  IF order = <<>> THEN N
  ELSE LET e == Head(order).id
       IN ReFinalizeWalk([N EXCEPT ![e].ty = ReFinalizedType(N, e)], Tail(order))

RECURSIVE ReFinalize(_)
ReFinalize(W) ==
  [W EXCEPT !.nodes = ReFinalizeWalk(W.nodes, PostOrder(W.nodes, W.root, 0, 0))]

\* if (refinalize) ReFinalize (lines 624-626, 1223-1225)
ReFinalizeIfNeeded(W) == IF W.refinalize THEN ReFinalize(W) ELSE W

\* walk(func->body), and the ReFinalize after it (lines 621-626).
S2L_walkBody(W, C) ==
  ReFinalizeIfNeeded(S2L_walk(W, PostOrder(W.nodes, W.root, 0, 0), C))

\* Struct2Local::Struct2Local (lines 607-628)
RECURSIVE Struct2Local(_,_)
Struct2Local(W0, allocation) ==
  LET a == W0.nodes[allocation]
      hasDesc == a.op = "desc"
      numIndexes == a.n + (IF hasDesc THEN 1 ELSE 0)
      C == [allocation |-> allocation, n |-> a.n, desc |-> hasDesc,
            descTy |-> IF hasDesc THEN W0.nodes[a.ch[Len(a.ch)]].ty ELSE TNone,
            ht |-> a.ty.ht,
            localIndexes |-> [i \in 1..numIndexes |-> W0.numLocals + i - 1]]
  IN S2L_walkBody([W0 EXCEPT !.numLocals = @ + numIndexes, !.refinalize = FALSE], C)

-----------------------------------------------------------------------------
(* Array2Struct.  C is the walker's fixed data: allocation, originalType,    *)
(* structType, numFields and arrayNewReplacement.                           *)

\* Array2Struct::getIndex
getIndex(N, curr) == getUnsigned(N[curr].a)

\* Array2Struct::getArrayNewSize
getArrayNewSize(N, allocation) ==
  IF N[allocation].kind = "ArrayNew" THEN getIndex(N, N[allocation].ch[1])
  ELSE Len(N[allocation].ch)

A2S_visitArrayNew(W, slot, C) ==
  IF slot.id = C.allocation THEN replaceCurrent(W, slot, C.arrayNewReplacement) ELSE W

A2S_visitArrayNewFixed(W, slot, C) ==
  IF slot.id = C.allocation THEN replaceCurrent(W, slot, C.arrayNewReplacement) ELSE W

A2S_visitArraySet(W, slot, C) ==
  LET curr == W.nodes[slot.id]
      index == getIndex(W.nodes, curr.ch[2])
  IN
  IF getInteraction(W.reached, slot.id) = "None" THEN W
  ELSE IF index >= C.numFields
       THEN [replaceWithBlock(W, slot, <<DropOf(W, curr.ch[1]), DropOf(W, curr.ch[3]),
                                         MkUnreachable>>)
               EXCEPT !.refinalize = TRUE]
       ELSE replaceWith(W, slot, MkStructSet(index, Ref(curr.ch[1]), Ref(curr.ch[3])))

\* An array.get lowering whose trap does not ask for a ReFinalize.
A2S_visitArrayGet_quiet(W, slot, C) ==
  LET curr == W.nodes[slot.id]
      index == getIndex(W.nodes, curr.ch[2])
  IN
  IF getInteraction(W.reached, slot.id) = "None" THEN W
  ELSE IF index >= C.numFields
       THEN replaceWithBlock(W, slot, <<DropOf(W, curr.ch[1]), MkUnreachable>>)
       ELSE replaceWith(W, slot, MkStructGet(index, Ref(curr.ch[1]), curr.ty))

A2S_visitArrayGet(W, slot, C) ==
  LET curr == W.nodes[slot.id]
      index == getIndex(W.nodes, curr.ch[2])
  IN
  IF getInteraction(W.reached, slot.id) = "None" THEN W
  ELSE IF index >= C.numFields
       THEN [replaceWithBlock(W, slot, <<DropOf(W, curr.ch[1]), MkUnreachable>>)
               EXCEPT !.refinalize = TRUE]
       ELSE replaceWith(W, slot, MkStructGet(index, Ref(curr.ch[1]), curr.ty))

A2S_visitRefTest(W, slot, C) ==
  LET curr == W.nodes[slot.id]
      result == IF isSubType(C.originalType, TRef(curr.op, FALSE)) THEN 1 ELSE 0
  IN
  IF getInteraction(W.reached, slot.id) = "None" THEN W
  ELSE replaceWithBlock(W, slot, <<DropOf(W, slot.id), MkConst(result)>>)

A2S_visitRefCast(W, slot, C) ==
  LET curr == W.nodes[slot.id] IN
  IF getInteraction(W.reached, slot.id) = "None" THEN W
  ELSE LET W1 == IF ~isSubType(C.originalType, curr.ty)
                 THEN replaceWithBlock(W, slot, <<DropOf(W, slot.id), MkUnreachable>>)
                 ELSE [W EXCEPT !.nodes[slot.id].ty = TRef(C.structType, FALSE)]
       IN [W1 EXCEPT !.refinalize = TRUE]

\* The visit of one expression by Array2Struct.
RECURSIVE A2S_visit(_,_,_)
A2S_visit(W, slot, C) ==
  LET kind == W.nodes[slot.id].kind IN
  CASE kind = "ArrayNew" -> A2S_visitArrayNew(W, slot, C)
    [] kind = "ArrayNewFixed" -> A2S_visitArrayNewFixed(W, slot, C)
    [] kind = "ArraySet" -> A2S_visitArraySet(W, slot, C)
    [] kind = "ArrayGet" -> A2S_visitArrayGet(W, slot, C)
    [] kind = "RefTest" -> A2S_visitRefTest(W, slot, C)
    [] kind = "RefCast" -> A2S_visitRefCast(W, slot, C)
    [] OTHER -> W

RECURSIVE A2S_walk(_, _, _)
A2S_walk(W, order, C) ==
  IF order = <<>> THEN W
  ELSE A2S_walk(A2S_visit(W, Head(order), C), Tail(order), C)

\* The StructNew that replaces the ArrayNew*, and the replacement of the
\* allocation (lines 1146-1172): [w, structNew, arrayNewReplacement].
A2S_makeStructNew(W, allocation, structType, numFields) ==
  LET a == W.nodes[allocation]
      element == FieldType(a.ty.ht)
  IN
  IF a.kind = "ArrayNew" /\ a.op # "default" THEN
    LET local == W.numLocals
        m == Make(addVar(W),
                  MkStructNew(structType, numFields,
                              [i \in 1..numFields |-> MkLocalGet(local, element)]))
        b == MakeBlockOf(m.w, <<MkLocalSet(local, Ref(a.ch[2])), Ref(m.id)>>)
    IN [w |-> b.w, structNew |-> m.id, arrayNewReplacement |-> b.id]
  ELSE
    LET m == Make(W, MkStructNew(structType, numFields,
                                 IF a.kind = "ArrayNew" THEN <<>>
                                 ELSE [i \in DOMAIN a.ch |-> Ref(a.ch[i])]))
    IN [w |-> m.w, structNew |-> m.id, arrayNewReplacement |-> m.id]

\* The types along the path the allocation reached (lines 1193-1213): one
\* round of the loop for each expression of todoIds.
RECURSIVE A2S_updateTypes(_, _, _, _)
A2S_updateTypes(W, todoIds, arrayType, structType) ==
  IF todoIds = {} THEN W
  ELSE LET e == CHOOSE x \in todoIds : TRUE
           type == W.nodes[e].ty
           W1 == IF W.nodes[e].kind = "RefCast" \/ ~isRef(type) THEN W
                 ELSE IF HeapIsSubType(arrayType, type.ht)
                 THEN [W EXCEPT !.nodes[e].ty = TRef(structType, type.nul),
                                !.refinalize = @ \/ arrayType # type.ht]
                 ELSE W
       IN A2S_updateTypes(W1, todoIds \ {e}, arrayType, structType)

\* The new expressions are marked as flowing the allocation out (lines
\* 1174-1181).
A2S_markFlows(made) ==
  [made.w EXCEPT !.reached =
     [e \in DOMAIN made.w.reached \cup {made.structNew, made.arrayNewReplacement} |->
        IF e \in {made.structNew, made.arrayNewReplacement} THEN "Flows"
        ELSE made.w.reached[e]]]

\* The loop over reachedInteractions (lines 1193-1213).
A2S_updateReached(W, arrayType, structType) ==
  A2S_updateTypes(W, DOMAIN W.reached, arrayType, structType)

\* walk(func->body), and the ReFinalize after it (lines 1220-1225).
A2S_walkBody(W, C) ==
  ReFinalizeIfNeeded(A2S_walk(W, PostOrder(W.nodes, W.root, 0, 0), C))

\* Array2Struct::Array2Struct (lines 1128-1226): [w, structNew]
RECURSIVE Array2Struct(_,_)
Array2Struct(W0, allocation) ==
  LET originalType == W0.nodes[allocation].ty
      numFields == getArrayNewSize(W0.nodes, allocation)
      structType == "$A2S"
  IN \* made is [w, structNew, arrayNewReplacement]
     CHOOSE r \in
       {[w |-> A2S_walkBody(
                 A2S_updateReached(A2S_markFlows(made), originalType.ht, structType),
                 [allocation |-> allocation, originalType |-> originalType,
                  structType |-> structType, numFields |-> numFields,
                  arrayNewReplacement |-> made.arrayNewReplacement]),
         structNew |-> made.structNew] :
          made \in {A2S_makeStructNew(W0, allocation, structType, numFields)}} : TRUE

-----------------------------------------------------------------------------
(* Heap2Local::Heap2Local: find the allocations, then for each one run the  *)
(* analysis and, when it does not escape, the rewriting.                    *)

\* AllocationFinder::isValidSize
isValidSize(size) == size < 20

RECURSIVE SelectIds(_, _, _)
SelectIds(N, order, kinds) ==
  IF order = <<>> THEN <<>>
  ELSE LET e == Head(order).id
           ok == /\ N[e].kind \in kinds
                 /\ N[e].ty # TUnreachable
                 /\ (N[e].kind = "ArrayNew" =>
                       /\ N[N[e].ch[1]].kind = "Const"
                       /\ isValidSize(getUnsigned(N[N[e].ch[1]].a)))
                 /\ (N[e].kind = "ArrayNewFixed" => isValidSize(Len(N[e].ch)))
       IN (IF ok THEN <<e>> ELSE <<>>) \o SelectIds(N, Tail(order), kinds)

\* AllocationFinder, and the order of the two loops: arrayNews, then structNews.
Candidates(N, r) ==
  SelectIds(N, PostOrder(N, r, 0, 0), {"ArrayNew", "ArrayNewFixed"})
    \o SelectIds(N, PostOrder(N, r, 0, 0), {"StructNew"})

\* Heap2Local::canHandleAsLocals: every field type of the model (i32, a
\* nullable or non-nullable reference) can be held in a local.
canHandleAsLocals(t) == t # TUnreachable

EmptyMap == [e \in {} |-> "None"]

Function == [nodes |-> nodes, root |-> root, numLocals |-> numLocals]

OutIdle == [phase |-> "off"]

Init ==
  \E sh \in Shapes :
    LET f == FlattenT(Body(sh), <<>>) IN
    /\ nodes = f.arena
    /\ root = f.id
    /\ numLocals = DeclaredLocals
    /\ todo = Candidates(f.arena, f.id)
    /\ alloc = 0
    /\ pc = "idle"
    /\ flows = <<>>
    /\ processed = {}
    /\ sets = {}
    /\ reached = EmptyMap
    /\ escaped = "unknown"
    /\ refinalize = FALSE
    /\ fault = FALSE
    /\ orig = [nodes |-> f.arena, root |-> f.id, numLocals |-> DeclaredLocals]
    /\ before = [nodes |-> f.arena, root |-> f.id, numLocals |-> DeclaredLocals]
    /\ log = <<>>
    /\ ostate = OutIdle

\* The next allocation of the two loops of the constructor; escapes() begins
\* by pushing the flow from the allocation to its parent.
Begin ==
  /\ pc = "idle"
  /\ todo # <<>>
  /\ todo' = Tail(todo)
  /\ IF canHandleAsLocals(nodes[Head(todo)].ty)
     THEN /\ alloc' = Head(todo)
          /\ pc' = "analyze"
          /\ flows' = << <<Head(todo), getParent(Head(todo))>> >>
          /\ processed' = {}
          /\ sets' = {}
          /\ reached' = EmptyMap
          /\ escaped' = "unknown"
          /\ before' = Function
          /\ UNCHANGED log
     ELSE /\ log' = Append(log, [alloc |-> Head(todo), what |-> "skipped"])
          /\ UNCHANGED <<alloc, pc, flows, processed, sets, reached, escaped, before>>
  /\ UNCHANGED <<nodes, root, numLocals, refinalize, fault, orig, ostate>>

Range(q) == {q[i] : i \in DOMAIN q}

\* UniqueNonrepeatingDeferredQueue::pop: an item pushed several times is
\* popped at its last place.
RECURSIVE QueuePop(_)
QueuePop(q) ==
  IF Head(q) \in Range(Tail(q)) THEN QueuePop(Tail(q))
  ELSE [item |-> Head(q), rest |-> Tail(q)]

\* UniqueNonrepeatingDeferredQueue::push: an item that was popped before is
\* not queued again.
QueuePush(q, done, item) == IF item \in done THEN q ELSE Append(q, item)

RECURSIVE QueuePushAll(_, _, _)
QueuePushAll(q, done, items) ==
  IF items = {} THEN q
  ELSE LET it == CHOOSE x \in items : \A y \in items : x[1] <= y[1]
       IN QueuePushAll(QueuePush(q, done, it), done, items \ {it})

\* The pushes of one flow into a queue that forgot what it popped.
PushedFlows_forgetful(N, q, done, child, parent, interaction) ==
  LET q1 == IF interaction = "Flows"
            THEN QueuePush(q, {}, <<parent, getParent(parent)>>) ELSE q
      q2 == IF N[parent].kind = "LocalSet"
            THEN QueuePushAll(q1, {},
                   {<<get, getParent(get)>> : get \in getSetInfluences(parent)})
            ELSE q1
  IN QueuePushAll(q2, {},
       {<<child, getTarget(name)>> : name \in branchesSentByParent(N, child, parent)})

\* The flows one iteration of the loop of escapes() pushes (lines 271-294).
PushedFlows(N, q, done, child, parent, interaction) ==
  LET q1 == IF interaction = "Flows"
            THEN QueuePush(q, done, <<parent, getParent(parent)>>) ELSE q
      q2 == IF N[parent].kind = "LocalSet"
            THEN QueuePushAll(q1, done,
                   {<<get, getParent(get)>> : get \in getSetInfluences(parent)})
            ELSE q1
  IN QueuePushAll(q2, done,
       {<<child, getTarget(name)>> : name \in branchesSentByParent(N, child, parent)})

\* A constructor that rewrites whatever escapes() answered.
afterEscapes_always(N, allocation, result) ==
  IF N[allocation].kind = "StructNew" THEN "struct2local" ELSE "array2struct"

\* What the loops of the constructor do with the answer of escapes() (lines
\* 1448-1455 and 1469-1472): where Heap2Local goes next.
afterEscapes(N, allocation, result) ==
  IF result THEN "idle"
  ELSE IF N[allocation].kind = "StructNew" THEN "struct2local" ELSE "array2struct"

\* An iteration that marks the parent alone.
markReached_parentOnly(map, child, parent, interaction) ==
  [e \in DOMAIN map \cup {parent} |-> IF e = parent THEN interaction ELSE map[e]]

\* reachedInteractions[child] = Flows; reachedInteractions[parent] =
\* interaction (lines 299-300).
markReached(map, child, parent, interaction) ==
  [e \in DOMAIN map \cup {child, parent} |->
     IF e = parent THEN interaction
     ELSE IF e = child THEN "Flows"
     ELSE map[e]]

\* One iteration of the loop of escapes() (lines 250-302).
FlowStep ==
  /\ pc = "analyze"
  /\ flows # <<>>
  /\ LET popped == QueuePop(flows)
         child == popped.item[1]
         parent == popped.item[2]
         interaction == getParentChildInteraction(nodes, alloc, parent, child)
     IN
     /\ processed' = processed \cup {popped.item}
     /\ IF interaction \in {"Escapes", "Mixes"}
        THEN /\ escaped' = "yes"
             /\ pc' = afterEscapes(nodes, alloc, TRUE)
             /\ flows' = popped.rest
             /\ log' = Append(log, [alloc |-> alloc, what |-> "escaped"])
             /\ UNCHANGED <<sets, reached>>
        ELSE /\ flows' = PushedFlows(nodes, popped.rest, processed', child, parent,
                                     interaction)
             /\ sets' = IF nodes[parent].kind = "LocalSet"
                        THEN sets \cup {parent} ELSE sets
             /\ reached' = markReached(reached, child, parent, interaction)
             /\ UNCHANGED <<escaped, pc, log>>
  /\ UNCHANGED <<nodes, root, numLocals, todo, alloc, refinalize, fault, orig, before,
                 ostate>>

\* The end of escapes(): the final check (lines 304-310), and the choice of
\* the rewriting in the constructor's loops.
FlowsDone ==
  /\ pc = "analyze"
  /\ flows = <<>>
  /\ IF ~getsAreExclusiveToSets(sets)
     THEN /\ escaped' = "yes"
          /\ pc' = afterEscapes(nodes, alloc, TRUE)
          /\ log' = Append(log, [alloc |-> alloc, what |-> "escaped"])
     ELSE /\ escaped' = "no"
          /\ pc' = afterEscapes(nodes, alloc, FALSE)
          /\ UNCHANGED log
  /\ UNCHANGED <<nodes, root, numLocals, todo, alloc, flows, processed, sets,
                 reached, refinalize, fault, orig, before, ostate>>

\* What the walkers work on.
Walked == [nodes |-> nodes, root |-> root, numLocals |-> numLocals,
           reached |-> reached, refinalize |-> FALSE, fault |-> fault]

\* Array2Struct(allocation, analyzer, func, wasm) (line 1452)
LowerArray ==
  /\ pc = "array2struct"
  /\ \E r \in {Array2Struct(Walked, alloc)} :
     /\ nodes' = r.w.nodes
     /\ root' = r.w.root
     /\ numLocals' = r.w.numLocals
     /\ reached' = r.w.reached
     /\ refinalize' = r.w.refinalize
     /\ fault' = r.w.fault
     /\ alloc' = r.structNew
     /\ log' = Append(log, [alloc |-> alloc, what |-> "lowered"])
  /\ pc' = "struct2local"
  /\ UNCHANGED <<todo, flows, processed, sets, escaped, orig, before, ostate>>

\* Struct2Local(allocation, analyzer, func, wasm) (lines 1453, 1470)
LowerStruct ==
  /\ pc = "struct2local"
  /\ \E w \in {Struct2Local(Walked, alloc)} :
     /\ nodes' = w.nodes
     /\ root' = w.root
     /\ numLocals' = w.numLocals
     /\ reached' = w.reached
     /\ refinalize' = w.refinalize
     /\ fault' = w.fault
  /\ log' = Append(log, [alloc |-> alloc, what |-> "optimized"])
  /\ pc' = "idle"
  /\ UNCHANGED <<todo, alloc, flows, processed, sets, escaped, orig, before, ostate>>

\* The end of the constructor.
Finish ==
  /\ pc = "idle"
  /\ todo = <<>>
  /\ pc' = "done"
  /\ UNCHANGED <<nodes, root, numLocals, todo, alloc, flows, processed, sets,
                 reached, escaped, refinalize, fault, orig, before, log, ostate>>

Next == Begin \/ FlowStep \/ FlowsDone \/ LowerArray \/ LowerStruct \/ Finish

Spec == Init /\ [][Next]_vars

-----------------------------------------------------------------------------
(* What a function does when it runs: the yardstick for "the same           *)
(* behaviour".  A value is an i32, a reference (0 is null, n > 0 the n-th   *)
(* object of the heap) or nothing; object 1 exists before the call and is   *)
(* what the imported functions return.                                      *)

I32(n) == [t |-> "i", v |-> n]
RefTo(o) == [t |-> "r", v |-> o]
Null == RefTo(0)
NoValue == [t |-> "n", v |-> 0]
Zero(t) == IF isRef(t) THEN Null ELSE I32(0)

\* The inputs of a run: c the value of every condition, ext whether the
\* imported functions return the outside object (or null), var the value of
\* the index that is not a constant.
Envs == [c : {0, 1}, ext : BOOLEAN, var : {0, ArrSize}]

Input(env, a) == IF a = 0 THEN env.c ELSE IF a = 3 THEN env.var ELSE a + 4

BinaryOp(op, l, r) ==
  CASE op = "add" -> (l + r) % WordSize
    [] op = "sub" -> (l - r) % WordSize
    [] op = "eq" -> IF l = r THEN 1 ELSE 0
    [] OTHER -> l

\* A value as the outside sees it: an object of the function is opaque.
Seen(val) ==
  IF val.t = "r" /\ val.v = 1 THEN [t |-> "x", v |-> 0]
  ELSE IF val.t = "r" /\ val.v > 1 THEN [t |-> "o", v |-> 0]
  ELSE val

\* n times the value x
RECURSIVE Fill(_, _)
Fill(n, x) == IF n = 0 THEN <<>> ELSE Append(Fill(n - 1, x), x)

\* The start of a run: local i is L[i + 1].
Frame0(fn) ==
  [L |-> Fill(fn.numLocals, Null),
   H |-> <<[ht |-> "ext", f |-> Fill(ArrSize, Null), d |-> Null]>>,
   T |-> <<>>, ctl |-> "ok", lbl |-> "", val |-> NoValue]

RECURSIVE Eval(_, _, _, _), EvalSeq(_, _, _, _, _)
\* The operands, in order, until one of them does not complete.
EvalSeq(N, env, es, S, vals) ==
  IF es = <<>> \/ S.ctl # "ok" THEN [s |-> S, vals |-> vals]
  ELSE LET S1 == Eval(N, env, Head(es), S)
       IN EvalSeq(N, env, Tail(es), S1, Append(vals, S1.val))

\* The accesses to field k (from 1) of the object a reference refers to.
CanAccess(S, ref, k) == ref # Null /\ k <= Len(S.H[ref.v].f)
Field(S, ref, k) == S.H[ref.v].f[k]
Store(S, ref, k, x, result) == [S EXCEPT !.H[ref.v].f[k] = x, !.val = result]
RMWValue(op, old, x) == IF op = "xchg" THEN x ELSE I32(BinaryOp(op, old.v, x.v))

Eval(N, env, e, S) ==
  LET c == N[e]
      r == EvalSeq(N, env, c.ch, S, <<>>)
      S1 == r.s
      v == r.vals
      Trap == [S1 EXCEPT !.ctl = "trap"]
      Ret(x) == [S1 EXCEPT !.val = x]
      New(ht, f, d) == [S1 EXCEPT !.H = Append(@, [ht |-> ht, f |-> f, d |-> d]),
                                  !.val = RefTo(Len(S1.H) + 1)]
      k == IF c.kind \in {"StructGet", "StructSet", "StructRMW", "StructCmpxchg"}
           THEN c.a + 1 ELSE getUnsigned(v[2].v) + 1
      x == IF c.kind \in {"StructSet", "StructRMW"} THEN v[2]
           ELSE IF c.kind = "ArrayCmpxchg" THEN v[4] ELSE v[3]
      expected == IF c.kind = "StructCmpxchg" THEN v[2] ELSE v[3]
  IN
  IF c.kind = "If" THEN
    LET Sc == Eval(N, env, c.ch[1], S) IN
    IF Sc.ctl # "ok" THEN Sc
    ELSE IF Sc.val.v # 0 THEN Eval(N, env, c.ch[2], Sc)
    ELSE IF c.op = "else" THEN Eval(N, env, c.ch[3], Sc)
    ELSE [Sc EXCEPT !.val = NoValue]
  ELSE IF S1.ctl # "ok" THEN
    IF c.kind = "Block" /\ S1.ctl = "br" /\ S1.lbl = c.name
    THEN [S1 EXCEPT !.ctl = "ok"]
    ELSE IF c.kind = "Loop" /\ S1.ctl = "br" /\ S1.lbl = c.name
    THEN Eval(N, env, e, [S1 EXCEPT !.ctl = "ok"])
    ELSE S1
  ELSE
    CASE c.kind = "Block" -> Ret(IF v = <<>> THEN NoValue ELSE v[Len(v)])
      [] c.kind = "Loop" -> S1
      [] c.kind = "Break" ->
           IF c.op = "c"
           THEN IF v[1].v # 0
                THEN [S1 EXCEPT !.ctl = "br", !.lbl = c.name, !.val = NoValue]
                ELSE Ret(NoValue)
           ELSE IF c.op = "v" \/ v[2].v # 0
           THEN [S1 EXCEPT !.ctl = "br", !.lbl = c.name, !.val = v[1]]
           ELSE Ret(v[1])
      [] c.kind = "Return" -> [S1 EXCEPT !.ctl = "ret", !.val = v[1]]
      [] c.kind \in {"Drop", "Nop"} -> Ret(NoValue)
      [] c.kind = "Unreachable" -> Trap
      [] c.kind = "Const" -> Ret(I32(c.a))
      [] c.kind = "RefNull" -> Ret(Null)
      [] c.kind = "LocalGet" -> Ret(S1.L[c.a + 1])
      [] c.kind = "LocalSet" ->
           [S1 EXCEPT !.L[c.a + 1] = v[1],
                      !.val = IF c.op = "tee" THEN v[1] ELSE NoValue]
      [] c.kind = "Call" ->
           IF c.op = "i32" THEN Ret(I32(Input(env, c.a)))
           ELSE IF c.op = "ref" THEN Ret(IF env.ext THEN RefTo(1) ELSE Null)
           ELSE [S1 EXCEPT !.T = Append(@, [i \in DOMAIN v |-> Seen(v[i])]),
                           !.val = NoValue]
      [] c.kind = "Binary" -> Ret(I32(BinaryOp(c.op, v[1].v, v[2].v)))
      [] c.kind = "RefIsNull" -> Ret(I32(IF v[1] = Null THEN 1 ELSE 0))
      [] c.kind = "RefEq" -> Ret(I32(IF v[1] = v[2] THEN 1 ELSE 0))
      [] c.kind = "RefAs" -> IF v[1] = Null THEN Trap ELSE Ret(v[1])
      [] c.kind = "RefTest" ->
           Ret(I32(IF v[1] # Null /\ HeapIsSubType(S1.H[v[1].v].ht, c.op)
                   THEN 1 ELSE 0))
      [] c.kind = "RefCast" ->
           IF c.op = "desc" /\ v[2] = Null THEN Trap
           ELSE IF v[1] = Null THEN (IF c.ty.nul THEN Ret(Null) ELSE Trap)
           ELSE IF c.op = "desc"
                THEN (IF S1.H[v[1].v].d = v[2] THEN Ret(v[1]) ELSE Trap)
                ELSE (IF HeapIsSubType(S1.H[v[1].v].ht, c.ty.ht)
                      THEN Ret(v[1]) ELSE Trap)
      [] c.kind = "RefGetDesc" ->
           IF v[1] = Null THEN Trap ELSE Ret(S1.H[v[1].v].d)
      [] c.kind = "StructNew" ->
           LET ops == IF c.op = "desc" THEN SubSeq(v, 1, Len(v) - 1) ELSE v
               f == IF ops = <<>>
                    THEN Fill(c.n, Zero(FieldType(c.ty.ht))) ELSE ops
               d == IF c.op = "desc" THEN v[Len(v)] ELSE Null
           IN IF c.op = "desc" /\ d = Null THEN Trap ELSE New(c.ty.ht, f, d)
      [] c.kind = "ArrayNew" ->
           New(c.ty.ht,
               Fill(getUnsigned(v[1].v),
                    IF c.op = "default" THEN Zero(FieldType(c.ty.ht)) ELSE v[2]),
               Null)
      [] c.kind = "ArrayNewFixed" -> New(c.ty.ht, v, Null)
      [] c.kind \in {"StructGet", "ArrayGet"} ->
           IF CanAccess(S1, v[1], k) THEN Ret(Field(S1, v[1], k)) ELSE Trap
      [] c.kind \in {"StructSet", "ArraySet"} ->
           IF CanAccess(S1, v[1], k) THEN Store(S1, v[1], k, x, NoValue) ELSE Trap
      [] c.kind \in {"StructRMW", "ArrayRMW"} ->
           IF CanAccess(S1, v[1], k)
           THEN Store(S1, v[1], k, RMWValue(c.op, Field(S1, v[1], k), x),
                      Field(S1, v[1], k))
           ELSE Trap
      [] c.kind \in {"StructCmpxchg", "ArrayCmpxchg"} ->
           IF CanAccess(S1, v[1], k)
           THEN Store(S1, v[1], k,
                      IF Field(S1, v[1], k) = expected THEN x ELSE Field(S1, v[1], k),
                      Field(S1, v[1], k))
           ELSE Trap

\* What the caller and the rest of the program can see of a run: the calls
\* made, how the run ended and with what value, and the outside object.
Observe(fn, env) ==
  LET S == Eval(fn.nodes, env, fn.root, Frame0(fn)) IN
  [calls |-> S.T,
   trapped |-> S.ctl = "trap",
   result |-> IF S.ctl = "trap" THEN NoValue ELSE Seen(S.val),
   outside |-> [i \in DOMAIN S.H[1].f |-> Seen(S.H[1].f[i])]]


-----------------------------------------------------------------------------
(* Properties of Heap2Local.                                                *)

\* The last thing the constructor did was to rewrite alloc into locals.
JustOptimized ==
  pc = "idle" /\ log # <<>> /\ log[Len(log)].what = "optimized"

\* Array2Struct just lowered an array allocation (Struct2Local is next).
JustLowered ==
  pc = "struct2local" /\ log # <<>> /\ log[Len(log)].what = "lowered"

\* What now stands where expression e stood when the analysis began.
Site(e) ==
  IF e = before.root THEN root
  ELSE LET ps == {pk \in Reach(before.nodes, before.root) \X (1..4) :
                    /\ pk[2] \in DOMAIN before.nodes[pk[1]].ch
                    /\ before.nodes[pk[1]].ch[pk[2]] = e}
           pk == CHOOSE x \in ps : TRUE
       IN nodes[pk[1]].ch[pk[2]]

AccessKinds == {"StructGet", "StructSet", "StructRMW", "StructCmpxchg",
                "ArrayGet", "ArraySet", "ArrayRMW", "ArrayCmpxchg"}

\* The kinds of parent the Checker has a rule for.
RuleKinds == AccessKinds \cup {"Block", "Loop", "Drop", "Break", "LocalGet",
                               "LocalSet", "RefIsNull", "RefEq", "RefAs", "RefTest",
                               "RefCast", "RefGetDesc"}

\* C1: once an allocation has been rewritten, the function does what it did
\* before the rewriting, for every input: the same calls with the same
\* arguments, the same result, the same writes to the outside object, and a
\* trap in the one exactly when there is a trap in the other.
C1_SameBehaviour ==
  JustOptimized => \A env \in Envs : Observe(before, env) = Observe(Function, env)

\* A rewritten array on which an in-bounds array.rmw was done: the function
\* did not trap before, and traps now.
C1_TrapsNow ==
  /\ JustOptimized
  /\ \E env \in Envs : ~Observe(before, env).trapped /\ Observe(Function, env).trapped

\* C2: once an allocation has been rewritten, no struct or array access left
\* in the body has an operand the allocation flows into.
C2_NoAccessLeft ==
  JustOptimized =>
    \A e \in Reach(nodes, root) :
      nodes[e].kind \in AccessKinds =>
        \A k \in DOMAIN nodes[e].ch : getInteraction(reached, nodes[e].ch[k]) # "Flows"

\* An array.rmw or array.cmpxchg is still in the rewritten body, its
\* reference operand being what replaced the allocation.
C2_AccessLeft ==
  /\ JustOptimized
  /\ \E e \in Reach(nodes, root) :
       /\ nodes[e].kind \in {"ArrayRMW", "ArrayCmpxchg"}
       /\ getInteraction(reached, nodes[e].ch[1]) = "Flows"

\* C3: when the allocation reaches an operand of a call, or of an expression
\* of a kind the Checker has no rule for, or is the value of the body (no
\* parent), escapes() answers true and the function is not rewritten.
C3_NoRuleEscapes ==
  \A f \in processed :
    (f[2] = 0 \/ orig.nodes[f[2]].kind \notin RuleKinds) =>
      escaped = "yes" /\ Function = before

\* The allocation went through a forwarder into a call, and escaped.
C3_ReachedCall ==
  /\ escaped = "yes"
  /\ \E f \in processed :
       f[2] # 0 /\ orig.nodes[f[2]].kind = "Call" /\ f[1] # alloc

\* C4: when the allocation flows into the reference operand of an array.get,
\* array.set, array.rmw or array.cmpxchg whose index is not a constant,
\* escapes() answers true.
C4_VariableIndexEscapes ==
  \A f \in processed :
    (/\ f[2] # 0
     /\ orig.nodes[f[2]].kind \in {"ArrayGet", "ArraySet", "ArrayRMW", "ArrayCmpxchg"}
     /\ orig.nodes[f[2]].ch[1] = f[1]
     /\ orig.nodes[orig.nodes[f[2]].ch[2]].kind # "Const")
    => escaped = "yes"

\* An array reached an array.rmw or array.cmpxchg with a variable index and
\* was found not to escape.
C4_VariableIndexKept ==
  /\ escaped = "no"
  /\ \E f \in processed :
       /\ f[2] # 0
       /\ orig.nodes[f[2]].kind \in {"ArrayRMW", "ArrayCmpxchg"}
       /\ orig.nodes[f[2]].ch[1] = f[1]
       /\ orig.nodes[orig.nodes[f[2]].ch[2]].kind # "Const"

\* Every get that may read a recorded set reads recorded sets only.
ExclusiveGets ==
  \A set \in sets : \A get \in getSetInfluences(set) :
    \A other \in getSets(get) : other \in sets

\* C5: escapes() answers false only if every local.get that may read one of
\* the recorded sets reads recorded sets only; a get that may also read
\* another set (or the value at entry) makes it answer true.
C5_GetExclusivity == escaped = "no" => ExclusiveGets

\* Every flow was accepted, the queue drained, and the final check alone made
\* escapes() answer true.
C5_FailedFinalCheck ==
  /\ escaped = "yes"
  /\ sets # {}
  /\ ~ExclusiveGets
  /\ \A f \in processed :
       getParentChildInteraction(before.nodes, alloc, f[2], f[1])
         \in {"Flows", "FullyConsumes"}

\* C6: when escapes() answers true the function is what it was before the
\* allocation was analysed (expressions, types, locals) and no assert failed.
C6_EscapeChangesNothing == escaped = "yes" => Function = before /\ ~fault

\* An allocation escaped in a function an earlier allocation of which was
\* rewritten.
C6_EscapedAfterRewrite ==
  /\ escaped = "yes"
  /\ \E i \in DOMAIN log : log[i].what = "optimized"

\* The branches to the label of a block, in the function as it was analysed.
BranchesTo(b) ==
  {x \in Reach(before.nodes, before.root) :
     /\ before.nodes[x].kind = "Break"
     /\ before.nodes[b].name # ""
     /\ before.nodes[x].name = before.nodes[b].name}

\* C7: the allocation flows through a reference-typed block (Flows) if it is
\* the block's immediate fallthrough, or is sent by the only branch to the
\* block while the block's last item is unreachable; in every other case
\* (two branches, a branch and a value falling through) the block mixes it
\* with another value: escapes() answers true and the function is unchanged.
C7_BlockMixes ==
  \A f \in processed :
    (f[2] # 0 /\ before.nodes[f[2]].kind = "Block" /\ isRef(before.nodes[f[2]].ty)) =>
      LET b == before.nodes[f[2]]
          last == b.ch[Len(b.ch)]
          fallsThrough == b.name = "" /\ last = f[1]
          soleBranch == /\ Cardinality(BranchesTo(f[2])) = 1
                        /\ \A x \in BranchesTo(f[2]) : before.nodes[x].ch[1] = f[1]
                        /\ before.nodes[last].ty = TUnreachable
      IN IF fallsThrough \/ soleBranch
         THEN getInteraction(reached, f[2]) = "Flows"
         ELSE escaped = "yes" /\ Function = before

\* A block that two branches target, one sending the allocation and one
\* another value, made the allocation escape.
C7_TwoBranches ==
  /\ escaped = "yes"
  /\ \E f \in processed :
       /\ f[2] # 0
       /\ before.nodes[f[2]].kind = "Block"
       /\ Cardinality(BranchesTo(f[2])) = 2
       /\ \E x, y \in BranchesTo(f[2]) :
            before.nodes[x].ch[1] = f[1] /\ before.nodes[y].ch[1] # f[1]

\* The unsigned value of a constant.
Unsigned(v) == IF v < 0 THEN v + WordSize ELSE v

\* The array accesses with a constant index the lowered allocation reached.
LoweredAccesses ==
  {e \in Reach(before.nodes, before.root) :
     /\ before.nodes[e].kind \in {"ArrayGet", "ArraySet"}
     /\ getInteraction(reached, e) # "None"}

\* The number of slots of the array that was lowered.
LoweredSize ==
  LET a == before.nodes[log[Len(log)].alloc] IN
  IF a.kind = "ArrayNew" THEN Unsigned(before.nodes[a.ch[1]].a) ELSE Len(a.ch)

IndexOf(e) == Unsigned(before.nodes[before.nodes[e].ch[2]].a)

\* Does something other than an access out of bounds ask for a ReFinalize: a
\* cast the allocation reached, or an expression it reached with a more
\* general type than the array's.
OtherRefinalize ==
  \E e \in DOMAIN reached \cap DOMAIN before.nodes :
    \/ before.nodes[e].kind = "RefCast"
    \/ /\ isRef(before.nodes[e].ty)
       /\ before.nodes[e].ty.ht # before.nodes[log[Len(log)].alloc].ty.ht
       /\ HeapIsSubType(before.nodes[log[Len(log)].alloc].ty.ht, before.nodes[e].ty.ht)

\* C8: Array2Struct turns an array.get / array.set with constant index i on
\* an array of N slots into drops of its operands followed by unreachable,
\* and asks for a ReFinalize, exactly when i >= N as unsigned numbers; when
\* i < N it turns it into the struct.get / struct.set of field i.
C8_ConstantIndex ==
  JustLowered =>
    /\ \A e \in LoweredAccesses :
         LET isGet == before.nodes[e].kind = "ArrayGet"
             operands == IF isGet THEN <<nodes[e].ch[1]>>
                         ELSE <<nodes[e].ch[1], nodes[e].ch[3]>>
             r == nodes[Site(e)]
         IN IF IndexOf(e) >= LoweredSize
            THEN /\ refinalize
                 /\ r.kind = "Block"
                 /\ Len(r.ch) = Len(operands) + 1
                 /\ \A k \in DOMAIN operands :
                      nodes[r.ch[k]].kind = "Drop" /\ nodes[r.ch[k]].ch = <<operands[k]>>
                 /\ nodes[r.ch[Len(r.ch)]].kind = "Unreachable"
            ELSE /\ r.kind = (IF isGet THEN "StructGet" ELSE "StructSet")
                 /\ r.a = IndexOf(e)
                 /\ r.ch = operands
    /\ (refinalize <=> (OtherRefinalize
                        \/ \E e \in LoweredAccesses : IndexOf(e) >= LoweredSize))

\* An array.get at index -1 (the largest unsigned index) was lowered.
C8_IndexMinusOne ==
  /\ JustLowered
  /\ refinalize
  /\ \E e \in LoweredAccesses :
       before.nodes[e].kind = "ArrayGet" /\ before.nodes[before.nodes[e].ch[2]].a = -1

\* The allocation that was rewritten had a descriptor of nullable type.
NullableDescriptor ==
  /\ JustOptimized
  /\ alloc \in DOMAIN before.nodes
  /\ before.nodes[alloc].kind = "StructNew"
  /\ before.nodes[alloc].op = "desc"
  /\ before.nodes[before.nodes[alloc].ch[Len(before.nodes[alloc].ch)]].ty.nul

\* The descriptor operand of the allocation that was rewritten.
DescriptorOf == before.nodes[alloc].ch[Len(before.nodes[alloc].ch)]

\* The blocks of the function that store ref.as_non_null of the descriptor
\* in a local.
NonNullStores ==
  {b \in Reach(nodes, root) :
     /\ nodes[b].kind = "Block"
     /\ \E k \in DOMAIN nodes[b].ch :
          LET set == nodes[nodes[b].ch[k]] IN
          /\ set.kind = "LocalSet"
          /\ nodes[set.ch[1]].kind = "RefAs"
          /\ nodes[set.ch[1]].op = "non_null"
          /\ nodes[set.ch[1]].ch = <<DescriptorOf>>}

\* C9: when the struct.new that is rewritten has a descriptor operand of
\* nullable type, what replaces it stores ref.as_non_null of the descriptor
\* in the descriptor's temp, and traps exactly when the struct.new did: when
\* the descriptor is null.
C9_NullDescriptorTraps ==
  NullableDescriptor =>
    /\ Cardinality(NonNullStores) = 1
    /\ \A b \in NonNullStores : \A env \in Envs :
         /\ (Eval(before.nodes, env, alloc, Frame0(before)).ctl = "trap")
              <=> (Eval(nodes, env, b, Frame0(Function)).ctl = "trap")
         /\ (Eval(nodes, env, b, Frame0(Function)).ctl = "trap") <=> ~env.ext

\* The descriptor was null and what replaced the struct.new trapped.
C9_TrapOnNull ==
  /\ NullableDescriptor
  /\ \E b \in NonNullStores : \E env \in Envs :
       /\ ~env.ext
       /\ Eval(nodes, env, b, Frame0(Function)).ctl = "trap"

-----------------------------------------------------------------------------
(* Outlining.  A module is a sequence of functions; a function body is a    *)
(* block whose list is in stack order (an instruction after its operands), *)
(* and a control flow structure in it carries its own list.  Functions are  *)
(* named by numbers: the module's come first, the outlined ones             *)
(* (outline$k) come after.  Indices into the hash string start at 0, as in  *)
(* the code.                                                                *)

\* The types of the value children of an expression of kind k whose
\* operands are i32.
Operands32(k) ==
  CASE k = "Binary" -> <<"i32", "i32">>
    [] k \in {"Drop", "LocalSet", "GlobalSet"} -> <<"i32">>
    [] OTHER -> <<>>

\* k, a, ty and (of a control flow structure) body are what the expression
\* itself is; ops, the types of its value children, belongs to the children.
Expr(k, a, ty, body) ==
  [k |-> k, a |-> a, ty |-> ty, body |-> body, ops |-> Operands32(k)]
XConst(v) == Expr("Const", v, "i32", <<>>)
XConstF32(v) == Expr("Const", v, "f32", <<>>)
\* drop of an f32
XDropF32 == [Expr("Drop", 0, "none", <<>>) EXCEPT !.ops = <<"f32">>]
XAdd == Expr("Binary", 0, "i32", <<>>)
XDrop == Expr("Drop", 0, "none", <<>>)
XGlobalSet(g) == Expr("GlobalSet", g, "none", <<>>)
XLocalGet(i) == Expr("LocalGet", i, "i32", <<>>)
XLocalSet(i) == Expr("LocalSet", i, "none", <<>>)
XBreak == Expr("Break", 0, "unreachable", <<>>)
XReturn == Expr("Return", 0, "unreachable", <<>>)
XUnreachable == Expr("Unreachable", 0, "unreachable", <<>>)
XBlock(list) == Expr("Block", 0, "none", list)
XTryTable(list) == Expr("TryTable", 0, "none", list)
\* exprs[i] of a separator
nullptr == Expr("", 0, "none", <<>>)

isControlFlowStructure(e) == e.k \in {"Block", "If", "Loop", "Try", "TryTable"}
isBranch(e) == e.k \in {"Break", "Switch", "BrOn"}

\* The instruction sequences the functions of the module are made of.
Chunks ==
  << <<XConst(1), XAdd, XDrop>>,
     <<XConst(1), XDrop>>,
     <<XConst(1), XDrop, XUnreachable>>,
     <<XLocalGet(0), XDrop>>,
     <<XConst(1), XLocalSet(0)>>,
     <<XConst(1), XDrop, XBreak>>,
     <<XConst(1), XDrop, XReturn>>,
     <<XBlock(<<XLocalGet(0), XDrop>>), XConst(1), XDrop>>,
     <<XBlock(<<XConst(2), XDrop>>), XConst(1), XDrop>>,
     <<XTryTable(<<XConst(2), XDrop>>), XConst(1), XDrop>>,
     <<XConst(1), XDrop, XConst(7), XGlobalSet(7)>>,
     <<XConstF32(1), XDropF32, XConst(7), XGlobalSet(7)>> >>

\* Does a chunk take a value from the stack.
NeedsValue(c) == Chunks[c][2].k = "Binary"

\* What comes before a chunk: instructions no other place of the module has,
\* leaving on the stack what the chunk takes.
Lead(c, u) == IF NeedsValue(c) THEN <<XConst(u)>> ELSE <<XConst(u), XGlobalSet(u)>>

\* Modules: function 1 holds chunk a and then chunk b (with or without
\* something between them), function 2 holds chunk a, function 3 chunk b.
Modules ==
  {[a |-> a, b |-> b, glue |-> g] :
     a \in DOMAIN Chunks, b \in DOMAIN Chunks, g \in BOOLEAN} \
  {m \in [a : DOMAIN Chunks, b : DOMAIN Chunks, glue : BOOLEAN] :
     m.glue /\ NeedsValue(m.b)}

Bodies(m) ==
  << XBlock(Lead(m.a, 11) \o Chunks[m.a]
            \o (IF m.glue THEN <<>> ELSE Lead(m.b, 12)) \o Chunks[m.b]),
     XBlock(Lead(m.a, 21) \o Chunks[m.a]),
     XBlock(Lead(m.b, 31) \o Chunks[m.b]) >>

\* ---- StringifyWalker: the order of the walk (scopes one after another,
\* never nested) and what it hands to addUniqueSymbol / visitExpression.
Separator(reason, func) == [sep |-> TRUE, reason |-> reason, func |-> func, e |-> nullptr]
Visit(e) == [sep |-> FALSE, reason |-> "", func |-> 0, e |-> e]

StartReason(e) == IF e.k = "TryTable" THEN "TryTableStart" ELSE "BlockStart"

RECURSIVE VisitAll(_)
VisitAll(list) ==
  IF list = <<>> THEN <<>> ELSE <<Visit(Head(list))>> \o VisitAll(Tail(list))

\* dequeueControlFlow: the start of the scope, its items, its end.
dequeueControlFlow(e) ==
  <<Separator(StartReason(e), 0)>> \o VisitAll(e.body) \o <<Separator("End", 0)>>

RECURSIVE DequeueAll(_)
DequeueAll(list) ==
  IF list = <<>> THEN <<>>
  ELSE (IF isControlFlowStructure(Head(list)) THEN dequeueControlFlow(Head(list)) ELSE <<>>)
       \o DequeueAll(Tail(list))

\* doWalkFunction: the function start, the body, the end, then the queued
\* control flow structures in the order they were met.
doWalkFunction(func, body) ==
  <<Separator("FuncStart", func), Visit(body), Separator("End", 0)>>
    \o dequeueControlFlow(body) \o DequeueAll(body.body)

RECURSIVE doWalkModule(_, _)
doWalkModule(bodies, func) ==
  IF func > Len(bodies) THEN <<>>
  ELSE doWalkFunction(func, bodies[func]) \o doWalkModule(bodies, func + 1)

\* ---- HashStringifyWalker: one number per position, the same number for
\* two expressions exactly when they are the same shallow expression, and a
\* number of its own for every separator.
\* StringifyEquator: a control flow structure is compared with what it
\* holds, any other expression without its children.
Shallow(e) == IF isControlFlowStructure(e) THEN e ELSE [e EXCEPT !.ops = <<>>]

HashOf(events, i) ==
  IF events[i].sep THEN 0 - i
  ELSE CHOOSE j \in 1..i :
         /\ ~events[j].sep /\ Shallow(events[j].e) = Shallow(events[i].e)
         /\ \A k \in 1..(j - 1) :
              events[k].sep \/ Shallow(events[k].e) # Shallow(events[i].e)

RECURSIVE HashString(_, _)
HashString(events, n) ==
  IF n = 0 THEN <<>> ELSE Append(HashString(events, n - 1), HashOf(events, n))

RECURSIVE Exprs(_)
Exprs(events) ==
  IF events = <<>> THEN <<>> ELSE <<Head(events).e>> \o Exprs(Tail(events))

\* idxToFuncName: where each function starts in the hash string.
RECURSIVE FuncStarts(_, _)
FuncStarts(events, n) ==
  IF n = 0 THEN <<>>
  ELSE IF events[n].sep /\ events[n].reason = "FuncStart"
       THEN Append(FuncStarts(events, n - 1), [idx |-> n - 1, func |-> events[n].func])
       ELSE FuncStarts(events, n - 1)

\* makeRelative: the function that holds position idx and the position in it.
makeRelative(starts, idx) ==
  LET at == CHOOSE k \in DOMAIN starts :
              /\ starts[k].idx <= idx
              /\ \A j \in DOMAIN starts : starts[j].idx <= idx => starts[j].idx <= starts[k].idx
  IN [relativeIdx |-> idx - starts[at].idx, func |-> starts[at].func]

\* ---- StringifyProcessor: the repeated substrings and the filters.
\* A substring is [Length, StartIndices], the start indices ascending.
RECURSIVE SortedSeq(_)
SortedSeq(S) ==
  IF S = {} THEN <<>>
  ELSE LET m == CHOOSE x \in S : \A y \in S : x <= y
       IN <<m>> \o SortedSeq(S \ {m})

Occurrences(hashString, s, L) ==
  {t \in 0..(Len(hashString) - L) :
     SubSeq(hashString, t + 1, t + L) = SubSeq(hashString, s + 1, s + L)}

\* Every occurrence goes on with the same symbol (to the right, to the left).
SameNext(hashString, occ, L) ==
  \E x \in {hashString[t + L + 1] : t \in {u \in occ : u + L < Len(hashString)}} :
    \A t \in occ : t + L < Len(hashString) /\ hashString[t + L + 1] = x
SamePrevious(hashString, occ) ==
  \E x \in {hashString[t] : t \in {u \in occ : u > 0}} :
    \A t \in occ : t > 0 /\ hashString[t] = x

MinLength == 2

Repeats(hashString) ==
  {[Length |-> L, StartIndices |-> SortedSeq(Occurrences(hashString, s, L))] :
     <<s, L>> \in {sl \in (0..(Len(hashString) - 1)) \X (MinLength..Len(hashString)) :
                     LET occ == Occurrences(hashString, sl[1], sl[2]) IN
                     /\ sl[1] + sl[2] <= Len(hashString)
                     /\ Cardinality(occ) >= 2
                     /\ \A t \in occ : sl[1] <= t
                     /\ ~SameNext(hashString, occ, sl[2])
                     /\ ~SamePrevious(hashString, occ)}}

Weight(sub) == sub.Length * Len(sub.StartIndices)
Before(a, b) ==
  \/ Weight(a) > Weight(b)
  \/ Weight(a) = Weight(b) /\ a.StartIndices[1] < b.StartIndices[1]
  \/ /\ Weight(a) = Weight(b) /\ a.StartIndices[1] = b.StartIndices[1]
     /\ a.Length >= b.Length

RECURSIVE ByWeight(_)
ByWeight(S) ==
  IF S = {} THEN <<>>
  ELSE LET m == CHOOSE x \in S : \A y \in S : Before(x, y)
       IN <<m>> \o ByWeight(S \ {m})

\* The maximal repeated substrings, the heaviest first.
repeatSubstrings(hashString) == ByWeight(Repeats(hashString))

EndIndices(sub) == {sub.StartIndices[i] + sub.Length : i \in DOMAIN sub.StartIndices}

\* A substring is dropped when one of its occurrences ends where an
\* occurrence of a substring kept before it ends.
RECURSIVE dedupeFrom(_, _)
dedupeFrom(substrings, seen) ==
  IF substrings = <<>> THEN <<>>
  ELSE IF EndIndices(Head(substrings)) \cap seen # {}
       THEN dedupeFrom(Tail(substrings), seen)
       ELSE <<Head(substrings)>>
              \o dedupeFrom(Tail(substrings), seen \cup EndIndices(Head(substrings)))
dedupe(substrings) == dedupeFrom(substrings, {})

Positions(start, L) == start..(start + L - 1)

\* The start indices of a substring that overlap nothing kept so far,
\* taken in ascending order.
RECURSIVE KeepStarts(_, _, _)
KeepStarts(starts, L, seen) ==
  IF starts = <<>> THEN [kept |-> <<>>, seen |-> seen]
  ELSE IF Positions(Head(starts), L) \cap seen # {}
       THEN KeepStarts(Tail(starts), L, seen)
       ELSE LET r == KeepStarts(Tail(starts), L, seen \cup Positions(Head(starts), L))
            IN [kept |-> <<Head(starts)>> \o r.kept, seen |-> r.seen]

RECURSIVE filterOverlapsFrom(_, _)
filterOverlapsFrom(substrings, seen) ==
  IF substrings = <<>> THEN <<>>
  ELSE LET sub == Head(substrings)
           r == KeepStarts(sub.StartIndices, sub.Length, seen)
       IN IF Len(r.kept) < 2
          THEN filterOverlapsFrom(Tail(substrings), seen)
          ELSE <<[Length |-> sub.Length, StartIndices |-> r.kept]>>
                 \o filterOverlapsFrom(Tail(substrings), r.seen)
filterOverlaps(substrings) == filterOverlapsFrom(substrings, {})

\* The conditions of the three filters.
condition(which, e) ==
  CASE which = "branches" -> isBranch(e) \/ e.k = "Return" \/ e.k = "TryTable"
    [] which = "localSets" -> e.k = "LocalSet"
    [] which = "localGets" -> e.k = "LocalGet"

\* Does an expression, or an expression inside it, satisfy the condition.
hasFilterValue(e, which) ==
  \/ condition(which, e)
  \/ isControlFlowStructure(e) /\ \E i \in DOMAIN e.body : condition(which, e.body[i])

\* The substrings none of whose expressions satisfies the condition.
RECURSIVE filter(_, _, _)
filter(substrings, exprs, which) ==
  IF substrings = <<>> THEN <<>>
  ELSE LET sub == Head(substrings)
           rest == filter(Tail(substrings), exprs, which)
       IN IF \E idx \in Positions(sub.StartIndices[1], sub.Length) :
               hasFilterValue(exprs[idx + 1], which)
          THEN rest
          ELSE <<sub>> \o rest

filterBranches(substrings, exprs) == filter(substrings, exprs, "branches")
filterLocalSets(substrings, exprs) == filter(substrings, exprs, "localSets")
filterLocalGets(substrings, exprs) == filter(substrings, exprs, "localGets")

\* ---- StackSignature: what a stretch of instructions takes from the stack
\* and leaves on it: two sequences of types.
ValueChildren(e) == e.ops

StackSignature(e) ==
  [params |-> ValueChildren(e),
   results |-> IF e.ty \in {"i32", "f32"} THEN <<e.ty>> ELSE <<>>,
   polymorphic |-> e.ty = "unreachable"]

EmptySignature == [params |-> <<>>, results |-> <<>>, polymorphic |-> FALSE]

\* sig += next: next takes its params from the top of what sig leaves, and
\* what is missing becomes a param of the whole, before those there are.
Compose(sig, next) ==
  LET required == Len(next.params)
      enough == Len(sig.results) >= required
      stack == IF enough THEN SubSeq(sig.results, 1, Len(sig.results) - required)
               ELSE <<>>
      params == IF enough \/ sig.polymorphic THEN sig.params
                ELSE SubSeq(next.params, 1, required - Len(sig.results)) \o sig.params
  IN IF next.polymorphic
     THEN [params |-> params, results |-> next.results, polymorphic |-> TRUE]
     ELSE [params |-> params, results |-> stack \o next.results,
           polymorphic |-> sig.polymorphic]

RECURSIVE SignatureOf(_, _, _)
SignatureOf(exprs, startIdx, n) ==
  IF n = 0 THEN EmptySignature
  ELSE Compose(SignatureOf(exprs, startIdx, n - 1), StackSignature(exprs[startIdx + n]))

\* ---- Outlining: the pass.  R is the state of the pass: the module's
\* functions, the locals of run() and the fields of the walker that is
\* reconstructing a function.
getFunction(functions, name) ==
  functions[CHOOSE i \in DOMAIN functions : functions[i].name = name]

setBody(functions, name, body) ==
  LET i == CHOOSE k \in DOMAIN functions : functions[k].name = name
  IN [functions EXCEPT ![i] = [@ EXCEPT !.hasBody = TRUE, !.body = body]]

\* A function of the module Outlining::run is given.
OriginalFunction(func, body) ==
  [name |-> func, outlined |-> FALSE, hasBody |-> TRUE, body |-> <<body>>,
   sig |-> EmptySignature]

\* Adds outline$N, without a body, with the signature of the first
\* occurrence of the substring.
addOutlinedFunction(functions, substring, exprs) ==
  LET startIdx == substring.StartIndices[1]
      func == Len(functions) + 1
      sig == SignatureOf(exprs, startIdx, substring.Length)
  IN [func |-> func,
      functions |-> Append(functions,
                           [name |-> func, outlined |-> TRUE, hasBody |-> FALSE,
                            body |-> <<>>, sig |-> [sig EXCEPT !.polymorphic = FALSE]])]

\* A sequence that takes in the position after its last one.
OutliningSequence_throughNext(startIdx, endIdx, func, endsTypeUnreachable) ==
  [startIdx |-> startIdx, endIdx |-> endIdx + 1, func |-> func,
   endsTypeUnreachable |-> endsTypeUnreachable]

OutliningSequence(startIdx, endIdx, func, endsTypeUnreachable) ==
  [startIdx |-> startIdx, endIdx |-> endIdx, func |-> func,
   endsTypeUnreachable |-> endsTypeUnreachable]

\* The sequences of one substring, added to those of the functions that
\* hold its occurrences.
RECURSIVE AddSequences(_, _, _, _, _, _)
AddSequences(seqByFunc, substring, k, func, exprs, starts) ==
  IF k > Len(substring.StartIndices) THEN seqByFunc
  ELSE LET seqIdx == substring.StartIndices[k]
           rel == makeRelative(starts, seqIdx)
           seq == OutliningSequence(
                    rel.relativeIdx, rel.relativeIdx + substring.Length, func,
                    exprs[seqIdx + substring.Length].ty = "unreachable")
       IN AddSequences([seqByFunc EXCEPT ![rel.func] = Append(@, seq)],
                       substring, k + 1, func, exprs, starts)

RECURSIVE makeSequences(_, _, _, _, _)
makeSequences(functions, seqByFunc, substrings, exprs, starts) ==
  IF substrings = <<>> THEN [functions |-> functions, seqByFunc |-> seqByFunc]
  ELSE LET added == addOutlinedFunction(functions, Head(substrings), exprs)
       IN makeSequences(added.functions,
                        AddSequences(seqByFunc, Head(substrings), 1, added.func, exprs, starts),
                        Tail(substrings), exprs, starts)

\* std::sort by startIdx.
RECURSIVE sortByStartIdx(_)
sortByStartIdx(seqs) ==
  IF seqs = <<>> THEN <<>>
  ELSE LET i == CHOOSE k \in DOMAIN seqs :
                  \A j \in DOMAIN seqs :
                    \/ seqs[k].startIdx < seqs[j].startIdx
                    \/ seqs[k].startIdx = seqs[j].startIdx /\ k <= j
       IN <<seqs[i]>> \o sortByStartIdx(SubSeq(seqs, 1, i - 1) \o SubSeq(seqs, i + 1, Len(seqs)))

\* The three filters of run() on what an outlined function may hold.
contentFilters_branchesOnly(substrings, exprs) == filterBranches(substrings, exprs)

contentFilters(substrings, exprs) ==
  filterLocalGets(filterLocalSets(filterBranches(substrings, exprs), exprs), exprs)

moveOutlinedFunctions(functions, outlinedCount) ==
  LET count == Len(functions)
  IN SubSeq(functions, count - outlinedCount + 1, count)
       \o SubSeq(functions, 1, count - outlinedCount)

\* ---- ReconstructStringifyWalker.  What a builder is given is kept as a
\* list of items [k, a]: an expression of the program (a is its position in
\* the hash string), a separator, a call (a is the callee), a local.get (a
\* is the index) or an unreachable.
Item(k, a) == [k |-> k, a |-> a]

existingEmit(R, item) == [R EXCEPT !.existing[R.func] = Append(@, item)]
outlinedEmit(R, item) == [R EXCEPT !.outlined = Append(@, item)]

RECURSIVE LocalGets(_)
LocalGets(n) == IF n = 0 THEN <<>> ELSE Append(LocalGets(n - 1), Item("local.get", n - 1))

startExistingFunction(R, func) ==
  [R EXCEPT !.existing[func] = <<>>, !.instrCounter = 0, !.seqCounter = 0,
            !.state = "NotInSeq"]

\* addUniqueSymbol that does not count the separator.
addUniqueSymbol_uncounted(R, reason, func) ==
  IF reason = "FuncStart" THEN startExistingFunction(R, func)
  ELSE existingEmit(R, Item(reason, 0))

addUniqueSymbol(R, reason, func) ==
  IF reason = "FuncStart" THEN startExistingFunction(R, func)
  ELSE existingEmit([R EXCEPT !.instrCounter = @ + 1], Item(reason, 0))

\* getCurrState without the look at the body of the outlined function.
getCurrState_neverSkips(R) ==
  IF /\ R.seqCounter < Len(R.sequences)
     /\ R.instrCounter >= R.sequences[R.seqCounter + 1].startIdx
     /\ R.instrCounter < R.sequences[R.seqCounter + 1].endIdx
  THEN "InSeq"
  ELSE "NotInSeq"

getCurrState(R) ==
  IF /\ R.seqCounter < Len(R.sequences)
     /\ R.instrCounter >= R.sequences[R.seqCounter + 1].startIdx
     /\ R.instrCounter < R.sequences[R.seqCounter + 1].endIdx
  THEN IF getFunction(R.functions, R.sequences[R.seqCounter + 1].func).hasBody
       THEN "InSkipSeq" ELSE "InSeq"
  ELSE "NotInSeq"

\* transitionToInSeq adding a function to the module when it begins a
\* sequence.
transitionToInSeq_addsFunction(R) ==
  LET seq == R.sequences[R.seqCounter + 1]
      outlinedFunc == getFunction(R.functions, seq.func)
      added == [R EXCEPT !.functions =
                  Append(@, [name |-> Len(@) + 1, outlined |-> TRUE, hasBody |-> FALSE,
                             body |-> <<>>, sig |-> outlinedFunc.sig])]
      started == [added EXCEPT !.outlinedFunc = seq.func, !.outlined = <<>>]
      called == existingEmit(started, Item("call", outlinedFunc.name))
      typed == IF seq.endsTypeUnreachable
               THEN existingEmit(called, Item("unreachable", 0)) ELSE called
  IN [typed EXCEPT !.outlined = @ \o LocalGets(Len(outlinedFunc.sig.params))]

transitionToInSeq(R) ==
  LET seq == R.sequences[R.seqCounter + 1]
      outlinedFunc == getFunction(R.functions, seq.func)
      started == [R EXCEPT !.outlinedFunc = seq.func, !.outlined = <<>>]
      called == existingEmit(started, Item("call", outlinedFunc.name))
      typed == IF seq.endsTypeUnreachable
               THEN existingEmit(called, Item("unreachable", 0)) ELSE called
  IN [typed EXCEPT !.outlined = @ \o LocalGets(Len(outlinedFunc.sig.params))]

\* transitionToInSkipSeq emitting the call alone.
transitionToInSkipSeq_callOnly(R) ==
  existingEmit(R, Item("call", getFunction(R.functions, R.sequences[R.seqCounter + 1].func).name))

transitionToInSkipSeq(R) ==
  LET seq == R.sequences[R.seqCounter + 1]
      outlinedFunc == getFunction(R.functions, seq.func)
      called == existingEmit(R, Item("call", outlinedFunc.name))
  IN IF seq.endsTypeUnreachable
     THEN existingEmit(called, Item("unreachable", 0)) ELSE called

maybeBeginSeq(R) ==
  LET counted == [R EXCEPT !.instrCounter = @ + 1]
      currState == getCurrState(counted)
      moved == IF currState # counted.state
               THEN CASE currState = "NotInSeq" -> counted
                      [] currState = "InSeq" -> transitionToInSeq(counted)
                      [] currState = "InSkipSeq" -> transitionToInSkipSeq(counted)
               ELSE counted
  IN [moved EXCEPT !.state = currState]

\* transitionToNotInSeq without the end of the outlined function.
transitionToNotInSeq_endsNothing(R) == [R EXCEPT !.seqCounter = @ + 1]

transitionToNotInSeq(R) ==
  LET ended == IF R.state = "InSeq"
               THEN [R EXCEPT !.functions = setBody(@, R.outlinedFunc, R.outlined)]
               ELSE R
  IN [ended EXCEPT !.seqCounter = @ + 1]

\* maybeEndSeq without `state = NotInSeq`.
maybeEndSeq_keepsState(R) ==
  IF R.instrCounter + 1 = R.sequences[R.seqCounter + 1].endIdx
  THEN transitionToNotInSeq(R)
  ELSE R

maybeEndSeq(R) ==
  IF R.instrCounter + 1 = R.sequences[R.seqCounter + 1].endIdx
  THEN [transitionToNotInSeq(R) EXCEPT !.state = "NotInSeq"]
  ELSE R

\* visitExpression with the existing builder taken for every state but
\* InSeq.
visitExpression_keepsSkipped(R, idx) ==
  LET begun == maybeBeginSeq(R)
      built == CASE begun.state = "InSeq" -> outlinedEmit(begun, Item("expr", idx))
                 [] OTHER -> existingEmit(begun, Item("expr", idx))
  IN IF built.state \in {"InSeq", "InSkipSeq"} THEN maybeEndSeq(built) ELSE built

\* idx is the position of curr in the hash string.
visitExpression(R, idx) ==
  LET begun == maybeBeginSeq(R)
      built == CASE begun.state = "InSeq" -> outlinedEmit(begun, Item("expr", idx))
                 [] begun.state = "NotInSeq" -> existingEmit(begun, Item("expr", idx))
                 [] OTHER -> begun
  IN IF built.state \in {"InSeq", "InSkipSeq"} THEN maybeEndSeq(built) ELSE built

RECURSIVE OriginalFunctions(_, _)
OriginalFunctions(bodies, n) ==
  IF n = 0 THEN <<>>
  ELSE Append(OriginalFunctions(bodies, n - 1), OriginalFunction(n, bodies[n]))

\* Heap2Local is not running.
Heap2LocalOff ==
  /\ nodes = <<>> /\ root = 0 /\ numLocals = 0 /\ todo = <<>> /\ alloc = 0
  /\ pc = "off" /\ flows = <<>> /\ processed = {} /\ sets = {}
  /\ reached = EmptyMap /\ escaped = "unknown" /\ refinalize = FALSE
  /\ fault = FALSE
  /\ orig = [nodes |-> <<>>, root |-> 0, numLocals |-> 0]
  /\ before = [nodes |-> <<>>, root |-> 0, numLocals |-> 0]
  /\ log = <<>>

OutInit ==
  /\ Heap2LocalOff
  /\ \E m \in Modules :
       ostate = [phase |-> "stringify",
                 bodies |-> Bodies(m),
                 functions |-> OriginalFunctions(Bodies(m), Len(Bodies(m))),
                 hashString |-> <<>>, exprs |-> <<>>, idxToFuncName |-> <<>>,
                 repeats |-> <<>>, substrings |-> <<>>,
                 seqByFunc |-> Fill(Len(Bodies(m)), <<>>), keys |-> {},
                 func |-> 0, at |-> 0, state |-> "NotInSeq", sequences |-> <<>>,
                 seqCounter |-> 0, instrCounter |-> 0,
                 existing |-> Fill(Len(Bodies(m)), <<>>),
                 outlinedFunc |-> 0, outlined |-> <<>>]

\* stringify.walkModule(module)
Stringify ==
  /\ ostate.phase = "stringify"
  /\ LET events == doWalkModule(ostate.bodies, 1) IN
     ostate' = [ostate EXCEPT !.phase = "repeatSubstrings",
                              !.hashString = HashString(events, Len(events)),
                              !.exprs = Exprs(events),
                              !.idxToFuncName = FuncStarts(events, Len(events))]
  /\ UNCHANGED h2lVars

RepeatSubstrings ==
  /\ ostate.phase = "repeatSubstrings"
  /\ ostate' = [ostate EXCEPT !.phase = "dedupe",
                              !.repeats = repeatSubstrings(ostate.hashString),
                              !.substrings = repeatSubstrings(ostate.hashString)]
  /\ UNCHANGED h2lVars

Dedupe ==
  /\ ostate.phase = "dedupe"
  /\ ostate' = [ostate EXCEPT !.phase = "filterOverlaps",
                              !.substrings = dedupe(ostate.substrings)]
  /\ UNCHANGED h2lVars

FilterOverlaps ==
  /\ ostate.phase = "filterOverlaps"
  /\ ostate' = [ostate EXCEPT !.phase = "filter",
                              !.substrings = filterOverlaps(ostate.substrings)]
  /\ UNCHANGED h2lVars

\* filterBranches, filterLocalSets, filterLocalGets
FilterContent ==
  /\ ostate.phase = "filter"
  /\ ostate' = [ostate EXCEPT !.phase = "makeSequences",
                              !.substrings = contentFilters(ostate.substrings, ostate.exprs)]
  /\ UNCHANGED h2lVars

\* makeSequences, and the keys outline() takes from its result.
MakeSequences ==
  /\ ostate.phase = "makeSequences"
  /\ LET made == makeSequences(ostate.functions, ostate.seqByFunc, ostate.substrings,
                               ostate.exprs, ostate.idxToFuncName) IN
     ostate' = [ostate EXCEPT !.phase = "outline",
                              !.functions = made.functions,
                              !.seqByFunc = made.seqByFunc,
                              !.keys = {f \in DOMAIN made.seqByFunc : made.seqByFunc[f] # <<>>}]
  /\ UNCHANGED h2lVars

\* One turn of the loop of outline(): the keys come in the order of an
\* unordered map, which is any order.
OutlineFunction ==
  /\ ostate.phase = "outline"
  /\ \E func \in ostate.keys :
       ostate' = [ostate EXCEPT !.phase = "reconstruct",
                                !.keys = @ \ {func},
                                !.func = func, !.at = 0,
                                !.state = "NotInSeq",
                                !.sequences = sortByStartIdx(ostate.seqByFunc[func]),
                                !.seqCounter = 0, !.instrCounter = 0]
  /\ UNCHANGED h2lVars

\* The walk of the function hands its next position to the walker; after
\* the last one the walk is over.
Reconstruct ==
  /\ ostate.phase = "reconstruct"
  /\ LET events == doWalkFunction(ostate.func, ostate.bodies[ostate.func])
         event == events[ostate.at + 1]
         start == (CHOOSE k \in DOMAIN ostate.idxToFuncName :
                     ostate.idxToFuncName[k].func = ostate.func)
         position == ostate.idxToFuncName[start].idx + ostate.at
         handled == IF event.sep
                    THEN addUniqueSymbol(ostate, event.reason, event.func)
                    ELSE visitExpression(ostate, position)
     IN ostate' = [handled EXCEPT !.at = @ + 1,
                                  !.phase = IF ostate.at + 1 = Len(events)
                                            THEN "outline" ELSE "reconstruct"]
  /\ UNCHANGED h2lVars

\* moveOutlinedFunctions, and the ReFinalize that ends run().
MoveOutlinedFunctions ==
  /\ ostate.phase = "outline"
  /\ ostate.keys = {}
  /\ ostate' = [ostate EXCEPT !.phase = "done",
                              !.functions = moveOutlinedFunctions(@, Len(ostate.substrings))]
  /\ UNCHANGED h2lVars

OutNext ==
  \/ Stringify \/ RepeatSubstrings \/ Dedupe \/ FilterOverlaps \/ FilterContent
  \/ MakeSequences \/ OutlineFunction \/ Reconstruct \/ MoveOutlinedFunctions

OutSpec == OutInit /\ [][OutNext]_vars

-----------------------------------------------------------------------------
(* Properties of Outlining.                                                 *)

\* What an outlined function must not hold.
Banned(e) == isBranch(e) \/ e.k \in {"Return", "TryTable", "LocalSet", "LocalGet"}
HoldsBanned(e) == Banned(e) \/ \E i \in DOMAIN e.body : Banned(e.body[i])

\* A substring one of whose positions, in one of its occurrences, holds
\* what an outlined function must not hold.
BannedSubstring(sub) ==
  \E k \in DOMAIN sub.StartIndices :
    \E idx \in Positions(sub.StartIndices[k], sub.Length) :
      HoldsBanned(ostate.exprs[idx + 1])

\* What the outlined builder was given for a function of p parameters:
\* local.get 0 .. local.get (p - 1), then expressions of the program that
\* hold no branch, return, try_table, local.set or local.get.
CleanBody(body, p) ==
  /\ Len(body) >= p
  /\ \A i \in DOMAIN body :
       IF i <= p THEN body[i] = Item("local.get", i - 1)
       ELSE body[i].k = "expr" /\ ~HoldsBanned(ostate.exprs[body[i].a + 1])

\* C10: no outlined function holds a branch, a return, a try_table, a
\* local.set or a local.get of the program (its only local.get read its
\* parameters), and when the first outlined function is created no substring
\* that holds one of these at a position is left.
C10_CalleesClean ==
  /\ \A i \in DOMAIN ostate.functions :
       (ostate.functions[i].outlined /\ ostate.functions[i].hasBody) =>
         CleanBody(ostate.functions[i].body, Len(ostate.functions[i].sig.params))
  /\ ostate.state = "InSeq" =>
       CleanBody(ostate.outlined,
                 Len(getFunction(ostate.functions, ostate.outlinedFunc).sig.params))
  /\ ostate.phase \in {"makeSequences", "outline", "reconstruct", "done"} =>
       \A k \in DOMAIN ostate.substrings : ~BannedSubstring(ostate.substrings[k])

\* The pass ended: a repeated substring with a local.get of the program was
\* found and no function was made of it, and an outlined function that
\* reads a parameter was made of another.
C10_FilteredAndOutlined ==
  /\ ostate.phase = "done"
  /\ \E k \in DOMAIN ostate.repeats :
       /\ BannedSubstring(ostate.repeats[k])
       /\ \E idx \in Positions(ostate.repeats[k].StartIndices[1], ostate.repeats[k].Length) :
            ostate.exprs[idx + 1].k = "LocalGet"
  /\ \E i \in DOMAIN ostate.functions :
       /\ ostate.functions[i].outlined /\ ostate.functions[i].hasBody
       /\ Len(ostate.functions[i].sig.params) > 0
       /\ Len(ostate.functions[i].body) > Len(ostate.functions[i].sig.params)

\* Where function func starts in the hash string.
StartOf(func) ==
  ostate.idxToFuncName[CHOOSE k \in DOMAIN ostate.idxToFuncName :
                         ostate.idxToFuncName[k].func = func].idx

\* The sequences were made.
SequencesMade == ostate.phase \in {"outline", "reconstruct", "done"}

\* The stack signature of the expressions an occurrence is made of.
OccurrenceSignature(func, seq) ==
  SignatureOf(ostate.exprs, StartOf(func) + seq.startIdx, seq.endIdx - seq.startIdx)

\* C11: the signature of a callee is the stack signature of every
\* occurrence a call to it replaces: the fold of StackSignature over the
\* expressions of that occurrence, not only of the first one.
C11_SignatureOfEveryOccurrence ==
  SequencesMade =>
    \A func \in DOMAIN ostate.seqByFunc :
      \A k \in DOMAIN ostate.seqByFunc[func] :
        LET seq == ostate.seqByFunc[func][k]
            callee == getFunction(ostate.functions, seq.func)
            sig == OccurrenceSignature(func, seq)
        IN callee.sig.params = sig.params /\ callee.sig.results = sig.results

\* The expressions of the program among what a builder was given.
ExprItemsOf(items) == SelectSeq(items, LAMBDA it : it.k = "expr")

RECURSIVE ItemsOf(_)
ItemsOf(positions) ==
  IF positions = <<>> THEN <<>>
  ELSE <<Item("expr", Head(positions))>> \o ItemsOf(Tail(positions))

\* The walk of ostate.func is about to hand an expression to the walker:
\* the one at position ostate.at of the function.
AtExpression ==
  /\ ostate.phase = "reconstruct"
  /\ ostate.exprs[StartOf(ostate.func) + ostate.at + 1] # nullptr

\* The sequences of the function that position i lies in.
Covering(i) ==
  {k \in DOMAIN ostate.sequences :
     ostate.sequences[k].startIdx <= i /\ i < ostate.sequences[k].endIdx}

SortedNonOverlapping(seqs) ==
  \A j, k \in DOMAIN seqs : j < k => seqs[j].endIdx <= seqs[k].startIdx

\* Where the expression at position i has to go.  Inside a sequence the
\* callee had no body when the sequence began exactly when the expression
\* before this one was given to the outlined builder.
Destination(i) ==
  IF Covering(i) = {} THEN "existing"
  ELSE LET seq == ostate.sequences[CHOOSE k \in Covering(i) : TRUE]
           previous == Item("expr", StartOf(ostate.func) + i - 1)
       IN IF i = seq.startIdx
          THEN IF getFunction(ostate.functions, seq.func).hasBody
               THEN "dropped" ELSE "outlined"
          ELSE IF ostate.outlined # <<>> /\ ostate.outlined[Len(ostate.outlined)] = previous
               THEN "outlined" ELSE "dropped"

\* The step gave the expression to its destination, and to it alone, after
\* what the destination already had.
Routed ==
  LET i == ostate.at
      it == Item("expr", StartOf(ostate.func) + i)
      was == ExprItemsOf(ostate.existing[ostate.func])
      now == ExprItemsOf(ostate'.existing[ostate.func])
  IN CASE Destination(i) = "existing" ->
            /\ now = Append(was, it)
            /\ ExprItemsOf(ostate'.outlined) = ExprItemsOf(ostate.outlined)
            /\ ostate'.functions = ostate.functions
       [] Destination(i) = "outlined" ->
            LET seq == ostate.sequences[CHOOSE k \in Covering(i) : TRUE] IN
            /\ now = was
            /\ ostate'.outlinedFunc = seq.func
            /\ ExprItemsOf(ostate'.outlined) =
                 Append(IF i = seq.startIdx THEN <<>> ELSE ExprItemsOf(ostate.outlined), it)
            /\ IF i + 1 = seq.endIdx
               THEN ostate'.functions = setBody(ostate.functions, seq.func, ostate'.outlined)
               ELSE ostate'.functions = ostate.functions
       [] Destination(i) = "dropped" ->
            /\ now = was
            /\ ExprItemsOf(ostate'.outlined) = ExprItemsOf(ostate.outlined)
            /\ ostate'.functions = ostate.functions

\* The positions of the hash string that belong to func, hold an
\* expression and lie in no sequence of func.
Outside(func) ==
  {p \in 0..(Len(ostate.exprs) - 1) :
     /\ makeRelative(ostate.idxToFuncName, p).func = func
     /\ ostate.exprs[p + 1] # nullptr
     /\ \A k \in DOMAIN ostate.seqByFunc[func] :
          \/ p - StartOf(func) < ostate.seqByFunc[func][k].startIdx
          \/ p - StartOf(func) >= ostate.seqByFunc[func][k].endIdx}

\* C12: the sequences of the function that is reconstructed are sorted and
\* do not overlap; every expression the walk hands over goes to one
\* destination: the existing builder when it lies in no sequence, the
\* outlined builder of the callee when it lies in a sequence whose callee
\* had no body when the sequence began, nowhere when the callee had one;
\* each destination gets its expressions in the order of the walk, and in
\* the end the function holds exactly its expressions outside the
\* sequences.
C12_OneDestination ==
  /\ [](ostate.phase = "reconstruct" => SortedNonOverlapping(ostate.sequences))
  /\ [][AtExpression => (Cardinality(Covering(ostate.at)) <= 1 /\ Routed)]_vars
  /\ [](ostate.phase = "done" =>
          \A func \in DOMAIN ostate.seqByFunc :
            ostate.seqByFunc[func] # <<>> =>
              ExprItemsOf(ostate.existing[func]) = ItemsOf(SortedSeq(Outside(func))))

\* A function was reconstructed that kept expressions, gave one occurrence
\* to an outlined function and had another occurrence dropped.
C12_AllThreeDestinations ==
  /\ ostate.phase = "done"
  /\ \E func \in DOMAIN ostate.seqByFunc :
       /\ ExprItemsOf(ostate.existing[func]) # <<>>
       /\ \E j, k \in DOMAIN ostate.seqByFunc[func] :
            LET callee == getFunction(ostate.functions, ostate.seqByFunc[func][j].func)
                given == Item("expr", StartOf(func) + ostate.seqByFunc[func][j].startIdx)
                dropped == Item("expr", StartOf(func) + ostate.seqByFunc[func][k].startIdx)
            IN /\ j # k
               /\ ostate.seqByFunc[func][k].func = ostate.seqByFunc[func][j].func
               /\ \E n \in DOMAIN callee.body : callee.body[n] = given
               /\ \A n \in DOMAIN callee.body : callee.body[n] # dropped

\* The calls among what a builder was given.
CallItemsOf(items) == SelectSeq(items, LAMBDA it : it.k = "call")

RECURSIVE CallsOf(_)
CallsOf(seqs) ==
  IF seqs = <<>> THEN <<>>
  ELSE <<Item("call", Head(seqs).func)>> \o CallsOf(Tail(seqs))

\* The sequences of the function that begin at position i.
Beginning(i) == {k \in DOMAIN ostate.sequences : ostate.sequences[k].startIdx = i}

\* What a step adds to the calls of the existing builder: the call to the
\* callee of the sequence that begins at the expression handed over.
CallsAdded ==
  IF AtExpression /\ Beginning(ostate.at) # {}
  THEN CallsOf(<<ostate.sequences[CHOOSE k \in Beginning(ostate.at) : TRUE]>>)
  ELSE <<>>

\* C13: for every sequence of the function that is reconstructed one call
\* to its callee goes to the existing builder, in the step that hands over
\* the first expression of the sequence, be the sequence given to the
\* outlined function or dropped, and be it adjacent to the one before or
\* not; no other step adds a call and the outlined builder gets none.
C13_OneCallPerSequence ==
  /\ [][/\ \A func \in DOMAIN ostate.existing :
            CallItemsOf(ostate'.existing[func]) =
              CallItemsOf(ostate.existing[func])
                \o (IF func = ostate.func THEN CallsAdded ELSE <<>>)
        /\ CallItemsOf(ostate'.outlined) = <<>>]_vars
  /\ [](ostate.phase = "done" =>
          \A func \in DOMAIN ostate.seqByFunc :
            CallItemsOf(ostate.existing[func]) =
              CallsOf(sortByStartIdx(ostate.seqByFunc[func])))

\* A function was reconstructed that has two adjacent sequences, one given
\* to an outlined function and the other dropped.
C13_AdjacentSequences ==
  /\ ostate.phase = "done"
  /\ \E func \in DOMAIN ostate.seqByFunc :
       \E j, k \in DOMAIN ostate.seqByFunc[func] :
         LET first == ostate.seqByFunc[func][j]
             second == ostate.seqByFunc[func][k]
             given == Item("expr", StartOf(func) + first.startIdx)
             dropped == Item("expr", StartOf(func) + second.startIdx)
         IN /\ first.endIdx = second.startIdx
            /\ \E n \in DOMAIN getFunction(ostate.functions, first.func).body :
                 getFunction(ostate.functions, first.func).body[n] = given
            /\ \A n \in DOMAIN getFunction(ostate.functions, second.func).body :
                 getFunction(ostate.functions, second.func).body[n] # dropped
            /\ Len(CallItemsOf(ostate.existing[func])) >= 2

\* The outlined functions of the module.
Callees == {i \in DOMAIN ostate.functions : ostate.functions[i].outlined}

\* The occurrences of a callee: the functions and the sequences in them.
OccurrencesOf(name) ==
  {fk \in UNION {{<<func, k>> : k \in DOMAIN ostate.seqByFunc[func]} :
                   func \in DOMAIN ostate.seqByFunc} :
     ostate.seqByFunc[fk[1]][fk[2]].func = name}

\* The calls to a callee the existing builders were given so far.
RECURSIVE CallsTo(_, _)
CallsTo(name, func) ==
  IF func = 0 THEN 0
  ELSE Len(SelectSeq(ostate.existing[func], LAMBDA it : it = Item("call", name)))
         + CallsTo(name, func - 1)

\* The step that hands over the first expression of a sequence gives it to
\* the outlined function when no occurrence of the callee was met before,
\* and skips it otherwise.
FirstOccurrenceOnly ==
  (AtExpression /\ Beginning(ostate.at) # {}) =>
    LET seq == ostate.sequences[CHOOSE k \in Beginning(ostate.at) : TRUE]
        it == Item("expr", StartOf(ostate.func) + ostate.at)
    IN IF CallsTo(seq.func, Len(ostate.existing)) = 0
       THEN /\ ostate'.state = "InSeq"
            /\ ostate'.outlinedFunc = seq.func
            /\ ExprItemsOf(ostate'.outlined) = <<it>>
       ELSE /\ ostate'.state = "InSkipSeq"
            /\ ostate'.outlined = ostate.outlined

\* C14: one outlined function is added for each substring the filters
\* left; of the occurrences of a callee the first one the reconstruction
\* meets is given to the callee and every other one is skipped; when the
\* pass is done every callee has a body, made of the expressions of one of
\* its occurrences, and every occurrence is replaced by a call.
C14_OneCalleePerSubstring ==
  /\ [](SequencesMade =>
          /\ Cardinality(Callees) = Len(ostate.substrings)
          /\ \A k \in DOMAIN ostate.substrings :
               \E i \in Callees :
                 Cardinality(OccurrencesOf(ostate.functions[i].name)) =
                   Len(ostate.substrings[k].StartIndices)
                 /\ \A fk \in OccurrencesOf(ostate.functions[i].name) :
                      \E n \in DOMAIN ostate.substrings[k].StartIndices :
                        /\ ostate.substrings[k].StartIndices[n] =
                             StartOf(fk[1]) + ostate.seqByFunc[fk[1]][fk[2]].startIdx
                        /\ ostate.substrings[k].Length =
                             ostate.seqByFunc[fk[1]][fk[2]].endIdx
                               - ostate.seqByFunc[fk[1]][fk[2]].startIdx)
  /\ [][FirstOccurrenceOnly]_vars
  /\ [](ostate.phase = "done" =>
          \A i \in Callees :
            LET callee == ostate.functions[i] IN
            /\ callee.hasBody /\ ExprItemsOf(callee.body) # <<>>
            /\ \E fk \in OccurrencesOf(callee.name) :
                 LET seq == ostate.seqByFunc[fk[1]][fk[2]] IN
                 ExprItemsOf(callee.body) =
                   ItemsOf(SortedSeq(Positions(StartOf(fk[1]) + seq.startIdx,
                                               seq.endIdx - seq.startIdx)))
            /\ CallsTo(callee.name, Len(ostate.existing)) =
                 Cardinality(OccurrencesOf(callee.name))
            /\ \A fk \in OccurrencesOf(callee.name) :
                 \A n \in DOMAIN ostate.existing[fk[1]] :
                   ostate.existing[fk[1]][n].k = "expr" =>
                     \/ ostate.existing[fk[1]][n].a - StartOf(fk[1])
                          < ostate.seqByFunc[fk[1]][fk[2]].startIdx
                     \/ ostate.existing[fk[1]][n].a - StartOf(fk[1])
                          >= ostate.seqByFunc[fk[1]][fk[2]].endIdx)

\* The pass is done with two outlined functions, one of them with three
\* occurrences or more.
C14_ManyOccurrences ==
  /\ ostate.phase = "done"
  /\ Cardinality(Callees) >= 2
  /\ \E i \in Callees : Cardinality(OccurrencesOf(ostate.functions[i].name)) >= 3

\* The names in the module's function table.
FunctionNames(functions) == {functions[i].name : i \in DOMAIN functions}

\* C15: functions are added to the module by makeSequences alone, one
\* step that comes before the reconstruction of any function, and they are
\* added without a body; when a function is reconstructed every callee is
\* in the module, and no step of the reconstruction adds a function.
C15_CalleesBeforeReconstruction ==
  /\ [][Len(ostate'.functions) # Len(ostate.functions) =>
          /\ ostate.phase = "makeSequences" /\ ostate'.phase = "outline"
          /\ SubSeq(ostate'.functions, 1, Len(ostate.functions)) = ostate.functions
          /\ \A i \in (Len(ostate.functions) + 1)..Len(ostate'.functions) :
               /\ ostate'.functions[i].outlined
               /\ ~ostate'.functions[i].hasBody
               /\ ostate'.functions[i].body = <<>>]_vars
  /\ [][ostate.phase \in {"outline", "reconstruct"} =>
          FunctionNames(ostate'.functions) = FunctionNames(ostate.functions)]_vars
  /\ [](ostate.phase = "reconstruct" =>
          /\ Cardinality(Callees) = Len(ostate.substrings)
          /\ \A k \in DOMAIN ostate.sequences :
               ostate.sequences[k].func \in FunctionNames(ostate.functions))

\* A function is being reconstructed, two callees are in the module and
\* one of them has no body yet.
C15_Reconstructing ==
  /\ ostate.phase = "reconstruct"
  /\ ostate.at > 0
  /\ Cardinality(Callees) >= 2
  /\ \E i \in Callees : ~ostate.functions[i].hasBody

\* The function whose reconstruction gave a callee its body: the one that
\* holds the expressions the body is made of.
WrittenBy(callee) ==
  {makeRelative(ostate.idxToFuncName, callee.body[n].a).func :
     n \in {m \in DOMAIN callee.body : callee.body[m].k = "expr"}}

\* What the callee holds, whichever occurrence it was made of.
RECURSIVE ShallowBody(_)
ShallowBody(items) ==
  IF items = <<>> THEN <<>>
  ELSE <<Shallow(ostate.exprs[Head(items).a + 1])>> \o ShallowBody(Tail(items))

\* C16: the reconstruction of a function reads nothing the reconstruction
\* of another function wrote (the body of a callee that getCurrState looks
\* at when a sequence begins was not written, or was written by the
\* reconstruction of this same function), and the module that results does
\* not depend on the order the functions are taken in: every callee holds
\* the expressions of the first occurrence of its substring.
C16_JobsShareNothing ==
  /\ [][(AtExpression /\ Beginning(ostate.at) # {}) =>
          LET seq == ostate.sequences[CHOOSE k \in Beginning(ostate.at) : TRUE]
          IN WrittenBy(getFunction(ostate.functions, seq.func)) \subseteq {ostate.func}]_vars
  /\ [](ostate.phase = "done" =>
          \A i \in Callees :
            \E k \in DOMAIN ostate.substrings :
              ShallowBody(ExprItemsOf(ostate.functions[i].body)) =
                ShallowBody(ItemsOf(SortedSeq(
                  Positions(ostate.substrings[k].StartIndices[1],
                            ostate.substrings[k].Length)))))

-----------------------------------------------------------------------------
(* Properties of the escape analysis.                                       *)

\* The (child, parent) pairs of the function; the parent of the body is 0.
AllPairs == OrigIds \X (OrigIds \cup {0})

\* escapes() is about to run an iteration of its loop.
Iterating == pc = "analyze" /\ flows # <<>>

\* C17: an iteration of the loop of escapes() takes a pair no iteration
\* took before, so the pairs not yet taken get fewer with every iteration
\* and the loop ends after at most as many iterations as the function has
\* pairs, also when a set influences the get that is its own value.
C17_EachPairOnce ==
  /\ [](processed \subseteq AllPairs)
  /\ [][Iterating =>
          /\ QueuePop(flows).item \notin processed
          /\ Cardinality(AllPairs \ processed') < Cardinality(AllPairs \ processed)]_vars

\* The analysis ended with the answer that the allocation does not escape,
\* in a function where a set is influenced by itself: its value is a get it
\* influences, and the pair of the two was taken.
C17_CycleAnalysed ==
  /\ escaped = "no"
  /\ \E s \in sets :
       /\ orig.nodes[s].ch[1] \in getSetInfluences(s)
       /\ <<orig.nodes[s].ch[1], s>> \in processed

\* escapes() has just answered that the allocation does not escape, and
\* nothing was rewritten yet.
JustReturnedFalse ==
  /\ escaped = "no"
  /\ pc = (IF nodes[alloc].kind = "StructNew" THEN "struct2local" ELSE "array2struct")
  /\ ~JustLowered

\* C18: while escapes() runs, and when it has answered false, every value
\* of reachedInteractions is FullyConsumes or Flows; when it has answered
\* false the allocation, and the child and the parent of every pair the
\* loop took, are keys of the map.
C18_ReachedInteractions ==
  /\ (pc = "analyze" \/ JustReturnedFalse) =>
       \A e \in DOMAIN reached : reached[e] \in {"FullyConsumes", "Flows"}
  /\ JustReturnedFalse =>
       /\ alloc \in DOMAIN reached
       /\ \A pair \in processed : {pair[1], pair[2]} \subseteq DOMAIN reached

\* escapes() answered false after it took three pairs or more, one of them
\* with a parent that fully consumes.
C18_AnsweredFalse ==
  /\ JustReturnedFalse
  /\ Cardinality(processed) >= 3
  /\ \E e \in DOMAIN reached : reached[e] = "FullyConsumes"

\* The accesses that write: the pair at the head of the worklist has one of
\* them for parent (an array.set counts when its index is a constant).
WritingKinds == {"StructSet", "StructRMW", "ArraySet", "ArrayRMW"}
ExchangingKinds == {"StructCmpxchg", "ArrayCmpxchg"}
HeadChild == QueuePop(flows).item[1]
HeadParent == QueuePop(flows).item[2]
AtWrite ==
  /\ Iterating
  /\ HeadParent # 0
  /\ nodes[HeadParent].kind \in WritingKinds \cup ExchangingKinds
  /\ nodes[HeadParent].kind = "ArraySet" =>
       nodes[nodes[HeadParent].ch[2]].kind = "Const"
ReferenceOperand(e) == nodes[e].ch[1]
ExpectedOperand(e) == nodes[e].ch[Len(nodes[e].ch) - 1]
StoredOperand(e) == nodes[e].ch[Len(nodes[e].ch)]
HeadInteraction == getParentChildInteraction(nodes, alloc, HeadParent, HeadChild)

ReachedCasts ==
  {c \in Reach(nodes, root) :
     /\ nodes[c].kind = "RefCast"
     /\ nodes[c].op # "desc"
     /\ getInteraction(reached, c) # "None"}

\* What stands, after the step, where expression c stands before it.
Replacement(c) ==
  IF c = root THEN root'
  ELSE LET pk == CHOOSE x \in Reach(nodes, root) \X (1..4) :
                   /\ x[2] \in DOMAIN nodes[x[1]].ch
                   /\ nodes[x[1]].ch[x[2]] = c
       IN nodes'[pk[1]].ch[pk[2]]

\* The cast was replaced by its operand / by the drop of its operand and
\* an unreachable.
CastSkipped(c) == Replacement(c) = nodes'[c].ch[1]
CastTraps(c) ==
  LET r == nodes'[Replacement(c)] IN
  /\ r.kind = "Block"
  /\ Len(r.ch) = 2
  /\ nodes'[r.ch[1]].kind = "Drop"
  /\ nodes'[r.ch[1]].ch = <<nodes'[c].ch[1]>>
  /\ nodes'[r.ch[2]].kind = "Unreachable"

\* The pair at the head of the worklist flows into a cast without descriptor.
AtCast ==
  /\ Iterating
  /\ HeadParent # 0
  /\ nodes[HeadParent].kind = "RefCast"
  /\ nodes[HeadParent].op # "desc"

\* The analyzer's half: Flows when the type of the allocation is a subtype
\* of the type of the cast, FullyConsumes (and nothing pushed for the
\* cast's parent) if not.
CastClassified ==
  AtCast =>
    IF isSubType(nodes[alloc].ty, nodes[HeadParent].ty)
    THEN /\ HeadInteraction = "Flows"
         /\ reached'[HeadParent] = "Flows"
    ELSE /\ HeadInteraction = "FullyConsumes"
         /\ reached'[HeadParent] = "FullyConsumes"
         /\ \A f \in Range(flows') : f[1] # HeadParent

\* A step of Struct2Local.
Rewriting == pc = "struct2local" /\ pc' = "idle"

\* Array2Struct left the cast in a drop that an unreachable follows.
WrappedToTrap(c) ==
  \E b \in Reach(nodes, root) :
    /\ nodes[b].kind = "Block"
    /\ Len(nodes[b].ch) = 2
    /\ nodes[nodes[b].ch[1]].kind = "Drop"
    /\ nodes[nodes[b].ch[1]].ch = <<c>>
    /\ nodes[nodes[b].ch[2]].kind = "Unreachable"

\* C20 as it is worded: a cast without descriptor the allocation flows into
\* is classified Flows when the type of the allocation is a subtype of the
\* type of the cast and FullyConsumes if not; Struct2Local replaces the
\* cast by its operand exactly when it was classified Flows, and by a drop
\* of the operand and an unreachable when it was classified FullyConsumes.
C20_RemovedIffFlows ==
  /\ [][CastClassified]_vars
  /\ [][Rewriting =>
          \A c \in ReachedCasts :
            IF reached[c] = "Flows" THEN CastSkipped(c)
            ELSE reached[c] = "FullyConsumes" /\ CastTraps(c)]_vars

\* C20, amended: the analyzer classifies the cast by the type the
\* allocation has when it is analysed, and Struct2Local replaces the cast by
\* its operand when the type the allocation has when it is rewritten is a
\* subtype of the type of the cast, and by a drop of the operand and an
\* unreachable if not. For a struct.new of the function the two tests agree,
\* and the cast is removed iff it was classified Flows. For an array that
\* Array2Struct turned into a struct.new they may differ: a cast classified
\* FullyConsumes was put by Array2Struct in a drop that an unreachable
\* follows, and Struct2Local removes it when its type is a supertype of the
\* struct type.
C20_RemovedByTypeWhenRewritten ==
  /\ [][CastClassified]_vars
  /\ [][Rewriting =>
          \A c \in ReachedCasts :
            /\ IF isSubType(nodes[alloc].ty, nodes[c].ty)
               THEN CastSkipped(c) ELSE CastTraps(c)
            /\ reached[c] \in {"Flows", "FullyConsumes"}
            /\ reached[c] = "Flows" => isSubType(nodes[alloc].ty, nodes[c].ty)
            /\ ~JustLowered =>
                 (reached[c] = "Flows" <=> isSubType(nodes[alloc].ty, nodes[c].ty))
            /\ (JustLowered /\ reached[c] = "FullyConsumes") => WrappedToTrap(c)]_vars

\* Struct2Local has rewritten a struct.new of the function that flowed into
\* a cast that fails: a drop and an unreachable stand where the cast stood.
C20_FailingCastRewritten ==
  /\ JustOptimized
  /\ \E c \in Reach(before.nodes, before.root) :
       /\ before.nodes[c].kind = "RefCast"
       /\ before.nodes[c].op # "desc"
       /\ before.nodes[alloc].kind = "StructNew"
       /\ <<before.nodes[c].ch[1], c>> \in processed
       /\ ~isSubType(before.nodes[alloc].ty, before.nodes[c].ty)
       /\ nodes[Site(c)].kind = "Block"
       /\ nodes[nodes[Site(c)].ch[2]].kind = "Unreachable"

\* The pair at the head of the worklist flows into an arm of an if of
\* reference type.
AtIfArm ==
  /\ Iterating
  /\ HeadParent # 0
  /\ nodes[HeadParent].kind = "If"
  /\ isRef(nodes[HeadParent].ty)
  /\ HeadChild \in {nodes[HeadParent].ch[2], nodes[HeadParent].ch[3]}

\* C21 as it is worded: when the allocation is the value of an arm of an if
\* of reference type, the interaction is Mixes.
C21_IfMixes == AtIfArm => HeadInteraction = "Mixes"

\* C21, amended: when the allocation is the value of an arm of an if of
\* reference type, the interaction is Escapes (the Checker has no rule for
\* an if, so its `escapes` stays true and the check for mixing is not
\* reached); escapes() answers true at once, as it would for Mixes, and
\* nothing is recorded for the if.
C21_IfEscapes ==
  /\ [](AtIfArm => HeadInteraction = "Escapes")
  /\ [][AtIfArm => /\ escaped' = "yes"
                    /\ reached' = reached
                    /\ nodes' = nodes]_vars

\* escapes() has answered true at the arm of an if.
C21_StoppedAtIf ==
  /\ escaped = "yes"
  /\ \E f \in processed :
       /\ f[2] # 0
       /\ nodes[f[2]].kind = "If"
       /\ isRef(nodes[f[2]].ty)
       /\ f[1] = nodes[f[2]].ch[2]
       /\ f[2] \notin DOMAIN reached

\* The values the locals may hold from an earlier run of the site.
PrevValues == {I32(0), I32(9)}

\* The function after the step, started with every local holding prev.
FrameAfter(prev) ==
  [Frame0([numLocals |-> numLocals']) EXCEPT !.L = Fill(numLocals', prev)]

\* The struct.new that Struct2Local is about to rewrite has operands.
RewritingOperands == Rewriting /\ Operands(nodes[alloc]) # <<>>

\* The block Struct2Local made that starts by storing the first operand of
\* the struct.new (or ref.as_non_null of it, for a descriptor).
StructNewBlock ==
  CHOOSE b \in DOMAIN nodes' \ DOMAIN nodes :
    /\ nodes'[b].kind = "Block"
    /\ nodes'[b].ch # <<>>
    /\ nodes'[nodes'[b].ch[1]].kind = "LocalSet"
    /\ LET v == nodes'[nodes'[b].ch[1]].ch[1] IN
       \/ v = nodes'[alloc].ch[1]
       \/ nodes'[v].kind = "RefAs" /\ nodes'[v].ch = <<nodes'[alloc].ch[1]>>

\* The struct.new's place in its parent, when the parent still has it.
PlaceKept(c) ==
  \/ c = root
  \/ LET pk == CHOOSE x \in Reach(nodes, root) \X (1..4) :
                  /\ x[2] \in DOMAIN nodes[x[1]].ch
                  /\ nodes[x[1]].ch[x[2]] = c
     IN pk[2] \in DOMAIN nodes'[pk[1]].ch

\* C22: the block that replaces a struct.new with operands first sets one
\* temp local per operand, and then one for the descriptor, in the order of
\* the operands, and only then sets the locals of the fields and of the
\* descriptor from the temps. So whatever the locals of the fields hold from
\* an earlier run of the site (the site may be in a loop), they hold it
\* until every operand is computed, and after the site each holds the value
\* of its operand.
C22_OperandsStaged ==
  [][RewritingOperands =>
       LET b == nodes'[StructNewBlock]
           n == nodes[alloc].n
           m == n + (IF nodes[alloc].op = "desc" THEN 1 ELSE 0)
           ops == nodes'[alloc].ch
           temp(i) == nodes'[b.ch[i]]
           field(i) == nodes'[b.ch[m + i]]
       IN
       /\ PlaceKept(alloc) => Replacement(alloc) = StructNewBlock
       /\ Len(b.ch) = 2 * m + 1
       /\ Len(ops) = m
       /\ nodes'[b.ch[2 * m + 1]].kind = "RefNull"
       /\ \A i \in 1..m :
            /\ temp(i).kind = "LocalSet" /\ temp(i).op = ""
            /\ temp(i).a >= numLocals
            /\ IF i <= n THEN temp(i).ch = <<ops[i]>>
               ELSE \/ temp(i).ch = <<ops[i]>>
                    \/ /\ nodes'[temp(i).ch[1]].kind = "RefAs"
                       /\ nodes'[temp(i).ch[1]].ch = <<ops[i]>>
            /\ field(i).kind = "LocalSet" /\ field(i).op = ""
            /\ field(i).a >= numLocals
            /\ nodes'[field(i).ch[1]].kind = "LocalGet"
            /\ nodes'[field(i).ch[1]].a = temp(i).a
            /\ \A j \in 1..m : temp(i).a # field(j).a
            /\ \A j \in 1..m : i # j => temp(i).a # temp(j).a /\ field(i).a # field(j).a
       /\ \A env \in Envs : \A prev \in PrevValues :
            LET S0 == FrameAfter(prev)
                staged == EvalSeq(nodes', env, SubSeq(b.ch, 1, m), S0, <<>>).s
                values == EvalSeq(nodes', env, ops, S0, <<>>)
                after == Eval(nodes', env, StructNewBlock, S0)
            IN /\ \A i \in 1..m : staged.L[field(i).a + 1] = prev
               /\ IF staged.ctl = "ok"
                  THEN /\ after.ctl = "ok"
                       /\ values.s.ctl = "ok"
                       /\ \A i \in 1..m : after.L[field(i).a + 1] = values.vals[i]
                  ELSE /\ after.ctl = staged.ctl
                       /\ \A i \in 1..m : after.L[field(i).a + 1] = prev]_vars

\* A struct.new with operands, in a loop that runs it two times, was
\* rewritten.
C22_SiteInLoop ==
  /\ JustOptimized
  /\ before.nodes[before.root].kind = "Loop"
  /\ before.nodes[before.root].name = "again"
  /\ alloc \in DOMAIN before.nodes
  /\ before.nodes[alloc].kind = "StructNew"
  /\ Operands(before.nodes[alloc]) # <<>>
  /\ nodes[Site(alloc)].kind = "Block"
  /\ Len(nodes[Site(alloc)].ch) = 2 * Len(before.nodes[alloc].ch) + 1

\* The local Struct2Local gives to field i of the allocation it rewrites
\* (the locals of the fields are the first ones it adds).
FieldLocal(i) == numLocals + i
FieldLocals ==
  {FieldLocal(i) : i \in 0 .. (nodes[alloc].n + (IF nodes[alloc].op = "desc" THEN 0 ELSE -1))}

\* The struct.rmw the allocation reaches, as Struct2Local finds them.
ReachedRMWs ==
  {c \in Reach(nodes, root) :
     nodes[c].kind = "StructRMW" /\ getInteraction(reached, c) # "None"}

\* C23: what replaces a struct.rmw on field i of the allocation computes
\* the reference and the value v as the struct.rmw did, then takes the
\* local of field i for the old value (so a write to field i made while v
\* was computed is seen), sets that local to v for xchg and to old op v for
\* the other operations, changes no other local of a field, and yields the
\* old value.
C23_RMWOnLocals ==
  [][Rewriting =>
       \A c \in ReachedRMWs : \A env \in Envs : \A prev \in PrevValues :
         LET S0 == FrameAfter(prev)
             local == FieldLocal(nodes[c].a)
             operands == EvalSeq(nodes', env, nodes'[c].ch, S0, <<>>)
             old == operands.s.L[local + 1]
             v == operands.vals[2]
             after == Eval(nodes', env, Replacement(c), S0)
         IN IF operands.s.ctl = "ok"
            THEN /\ after.ctl = "ok"
                 /\ after.val = old
                 /\ after.L[local + 1] = RMWValue(nodes[c].op, old, v)
                 /\ \A other \in FieldLocals \ {local} :
                      after.L[other + 1] = operands.s.L[other + 1]
                 /\ after.T = operands.s.T
                 /\ after.H = operands.s.H
            ELSE /\ after.ctl = operands.s.ctl
                 /\ \A other \in FieldLocals :
                      after.L[other + 1] = operands.s.L[other + 1]]_vars

\* A struct.rmw whose value operand writes the field it updates was
\* rewritten.
C23_WriteInsideValue ==
  /\ JustOptimized
  /\ \E c \in Reach(before.nodes, before.root) :
       /\ before.nodes[c].kind = "StructRMW"
       /\ c \in DOMAIN reached
       /\ \E s \in Reach(before.nodes, before.nodes[c].ch[2]) :
            before.nodes[s].kind = "StructSet" /\ before.nodes[s].a = before.nodes[c].a
       /\ nodes[Site(c)].kind = "Block"
       /\ Len(nodes[Site(c)].ch) = 5

\* The struct.cmpxchg whose reference is the allocation, as Struct2Local
\* finds them.
ReachedCmpxchgs ==
  {c \in Reach(nodes, root) :
     /\ nodes[c].kind = "StructCmpxchg"
     /\ getInteraction(reached, nodes[c].ch[1]) = "Flows"}

\* C24: what replaces a struct.cmpxchg on field i of the allocation (the
\* allocation is its reference) computes the reference, expected and the
\* replacement as the struct.cmpxchg did, takes the local of field i for
\* the old value, sets that local to the replacement when old equals
\* expected and leaves it alone when not, and yields old either way.
C24_CmpxchgOnLocals ==
  [][Rewriting =>
       \A c \in ReachedCmpxchgs : \A env \in Envs : \A prev \in PrevValues :
         LET S0 == FrameAfter(prev)
             local == FieldLocal(nodes[c].a)
             operands == EvalSeq(nodes', env, nodes'[c].ch, S0, <<>>)
             old == operands.s.L[local + 1]
             expected == operands.vals[2]
             replacement == operands.vals[3]
             after == Eval(nodes', env, Replacement(c), S0)
             b == nodes'[Replacement(c)]
         IN /\ b.kind = "Block"
            /\ nodes'[b.ch[2]].kind = "LocalSet" /\ nodes'[b.ch[2]].ch = <<nodes'[c].ch[2]>>
            /\ nodes'[b.ch[3]].kind = "LocalSet" /\ nodes'[b.ch[3]].ch = <<nodes'[c].ch[3]>>
            /\ nodes'[b.ch[2]].a # nodes'[b.ch[3]].a
            /\ {nodes'[b.ch[2]].a, nodes'[b.ch[3]].a} \cap FieldLocals = {}
            /\ IF operands.s.ctl = "ok"
               THEN /\ after.ctl = "ok"
                    /\ after.val = old
                    /\ after.L[local + 1] = (IF old = expected THEN replacement ELSE old)
                    /\ \A other \in FieldLocals \ {local} :
                         after.L[other + 1] = operands.s.L[other + 1]
                    /\ after.T = operands.s.T
                    /\ after.H = operands.s.H
               ELSE after.ctl = operands.s.ctl]_vars

\* A struct.cmpxchg on the allocation was rewritten, and what replaces it
\* makes the exchange: the local of the field no longer holds the old value
\* that is yielded.
C24_Exchanged ==
  /\ JustOptimized
  /\ \E c \in Reach(before.nodes, before.root) :
       /\ before.nodes[c].kind = "StructCmpxchg"
       /\ getInteraction(reached, before.nodes[c].ch[1]) = "Flows"
       /\ nodes[Site(c)].kind = "Block"
       /\ Len(nodes[Site(c)].ch) = 6
       /\ \E env \in Envs :
            LET after == Eval(nodes, env, Site(c), Frame0(Function)) IN
            /\ after.ctl = "ok"
            /\ after.L[before.numLocals + before.nodes[c].a + 1] # after.val

-----------------------------------------------------------------------------
(* Properties of the reconstruction's states.                               *)

\* The sequence the walker is at: sequences[seqCounter].
CurrentSeq == ostate.sequences[ostate.seqCounter + 1]

\* The state in which the walker handles the expression it is handed: the
\* state it takes when the expression begins the current sequence, the
\* state it is in otherwise.
StateInStep ==
  IF ostate.seqCounter < Len(ostate.sequences) /\ ostate.at = CurrentSeq.startIdx
  THEN IF getFunction(ostate.functions, CurrentSeq.func).hasBody
       THEN "InSkipSeq" ELSE "InSeq"
  ELSE ostate.state

\* The expression handed over is the last one of the current sequence.
AtLastOfSeq ==
  /\ AtExpression
  /\ ostate.seqCounter < Len(ostate.sequences)
  /\ ostate.at = CurrentSeq.endIdx - 1
  /\ StateInStep \in {"InSeq", "InSkipSeq"}

\* The functions that have a body.
WithBody(functions) ==
  {functions[i].name : i \in {j \in DOMAIN functions : functions[j].hasBody}}

\* C25: when the walker, in state InSeq or InSkipSeq, has handled the
\* expression whose counter is endIdx - 1 of the current sequence,
\* seqCounter is one more and the state is NotInSeq, and the callee got its
\* body in that step if and only if the state was InSeq; in every other
\* step seqCounter stays, or goes to 0 at the start of a function, and no
\* function gets a body.
C25_TransitionOut ==
  [][IF AtLastOfSeq
     THEN /\ ostate'.seqCounter = ostate.seqCounter + 1
          /\ ostate'.state = "NotInSeq"
          /\ WithBody(ostate'.functions) \ WithBody(ostate.functions) =
               (IF StateInStep = "InSeq" THEN {CurrentSeq.func} ELSE {})
          /\ StateInStep = "InSeq" =>
               /\ getFunction(ostate'.functions, CurrentSeq.func).body = ostate'.outlined
               /\ ostate'.outlinedFunc = CurrentSeq.func
     ELSE /\ \/ ostate'.seqCounter = ostate.seqCounter
             \/ /\ ostate'.seqCounter = 0
                /\ ostate'.phase = "reconstruct"
                /\ ostate'.at <= 1
          /\ WithBody(ostate'.functions) = WithBody(ostate.functions)]_vars

\* In the function that is reconstructed two sequences have ended, the
\* first given to the callee and the second, of the same callee, skipped.
C25_EndedBothWays ==
  /\ ostate.phase = "reconstruct"
  /\ ostate.state = "NotInSeq"
  /\ ostate.seqCounter >= 2
  /\ ostate.sequences[1].func = ostate.sequences[2].func
  /\ getFunction(ostate.functions, ostate.sequences[1].func).hasBody
  /\ ExprItemsOf(getFunction(ostate.functions, ostate.sequences[1].func).body)
       = ItemsOf(SortedSeq(Positions(StartOf(ostate.func) + ostate.sequences[1].startIdx,
                                     ostate.sequences[1].endIdx - ostate.sequences[1].startIdx)))

\* The expression handed over is the first one of the current sequence.
AtFirstOfSeq ==
  /\ AtExpression
  /\ ostate.seqCounter < Len(ostate.sequences)
  /\ ostate.at = CurrentSeq.startIdx

\* The last expression of the occurrence the current sequence stands for.
LastOfOccurrence == ostate.exprs[StartOf(ostate.func) + CurrentSeq.endIdx]

\* The number of parameters of the callee of the current sequence.
CalleeParams == Len(getFunction(ostate.functions, CurrentSeq.func).sig.params)

\* What the existing builder has to get when the current sequence begins.
CallEmitted ==
  IF LastOfOccurrence.ty = "unreachable"
  THEN <<Item("call", CurrentSeq.func), Item("unreachable", 0)>>
  ELSE <<Item("call", CurrentSeq.func)>>

\* C26: in the step that enters a sequence the existing builder gets the
\* call, followed by an unreachable if and only if the last expression of
\* the occurrence has type unreachable, and nothing else; entering InSeq
\* the outlined builder starts anew with local.get 0 .. local.get (p-1) in
\* that order, p the number of parameters of the callee, and then the
\* first expression of the sequence; entering InSkipSeq it gets nothing.
C26_CallAndParameters ==
  [][AtFirstOfSeq =>
       /\ ostate'.existing[ostate.func] = ostate.existing[ostate.func] \o CallEmitted
       /\ StateInStep = "InSeq" =>
            /\ Len(ostate'.outlined) = CalleeParams + 1
            /\ \A n \in 1..CalleeParams :
                 ostate'.outlined[n] = Item("local.get", n - 1)
            /\ ostate'.outlined[CalleeParams + 1] =
                 Item("expr", StartOf(ostate.func) + ostate.at)
       /\ StateInStep = "InSkipSeq" => ostate'.outlined = ostate.outlined]_vars

\* The pass is over; an outlined function with a parameter begins with
\* local.get 0, and of two calls that are followed by an unreachable one
\* began a sequence that was dropped.
C26_ParameterAndUnreachable ==
  /\ ostate.phase = "done"
  /\ \E i \in DOMAIN ostate.functions :
       /\ ostate.functions[i].outlined
       /\ Len(ostate.functions[i].sig.params) >= 1
       /\ ostate.functions[i].body # <<>>
       /\ ostate.functions[i].body[1] = Item("local.get", 0)
  /\ \E f, g \in DOMAIN ostate.existing :
       /\ f # g
       /\ \E n \in DOMAIN ostate.existing[f] :
            /\ n > 1
            /\ ostate.existing[f][n] = Item("unreachable", 0)
            /\ ostate.existing[f][n - 1].k = "call"
            /\ \E m \in DOMAIN ostate.existing[g] :
                 /\ m > 1
                 /\ ostate.existing[g][m] = Item("unreachable", 0)
                 /\ ostate.existing[g][m - 1] = ostate.existing[f][n - 1]

-----------------------------------------------------------------------------
(* Properties of Heap2Local: the allocation as what a cmpxchg expects.      *)

\* The struct.cmpxchg on another struct that the allocation flows into as
\* `expected`.
ExpectedCmpxchgs ==
  {c \in Reach(before.nodes, before.root) :
     /\ before.nodes[c].kind = "StructCmpxchg"
     /\ getInteraction(reached, before.nodes[c].ch[2]) = "Flows"
     /\ getInteraction(reached, before.nodes[c].ch[1]) # "Flows"}

\* Does a run of the function write to the outside object.
ExchangesOutside(fn, env) ==
  Eval(fn.nodes, env, fn.root, Frame0(fn)).H[1].f # Frame0(fn).H[1].f

\* C27: when the allocation flows only into `expected` of a struct.cmpxchg
\* on another struct, the rewritten function exchanges in the runs in which
\* the function exchanged before, that is in none, also when the field of
\* the other struct holds null.
C27_ExpectedNeverExchanges ==
  (JustOptimized /\ ExpectedCmpxchgs # {}) =>
    \A env \in Envs : ExchangesOutside(Function, env) = ExchangesOutside(before, env)

-----------------------------------------------------------------------------
(* Properties of Heap2Local: the locals the allocation goes through.        *)

\* The local.sets that were the parent of a pair the loop took.
ReceivingSets ==
  {pair[2] : pair \in {q \in processed : q[2] # 0 /\ orig.nodes[q[2]].kind = "LocalSet"}}

\* The local.gets that may read a recorded set.
InfluencedGets == UNION {getSetInfluences(set) : set \in sets}

\* C28: when escapes() has answered false, every local.set that was the
\* parent of a pair the loop took is in sets and has an interaction other
\* than None, and every local.get a recorded set influences is in
\* reachedInteractions with Flows; Struct2Local then leaves none of these
\* sets and gets in the function: a null stands where a get stood, and the
\* value, or a drop of it, where a set stood.
C28_LocalsRewritten ==
  /\ [](JustReturnedFalse =>
          /\ ReceivingSets \subseteq sets
          /\ \A set \in ReceivingSets : getInteraction(reached, set) # "None"
          /\ \A get \in InfluencedGets : getInteraction(reached, get) = "Flows")
  /\ [][Rewriting =>
          /\ \A set \in sets :
               /\ set \notin Reach(nodes', root')
               /\ PlaceKept(set) =>
                    IF nodes[set].op = "tee"
                    THEN Replacement(set) = nodes'[set].ch[1]
                    ELSE /\ nodes'[Replacement(set)].kind = "Drop"
                         /\ nodes'[Replacement(set)].ch = nodes'[set].ch
          /\ \A get \in InfluencedGets :
               /\ get \notin Reach(nodes', root')
               /\ PlaceKept(get) => nodes'[Replacement(get)].kind = "RefNull"
          /\ \A e \in Reach(nodes', root') :
               nodes'[e].kind \in {"LocalSet", "LocalGet"} =>
                 getInteraction(reached, e) = "None"]_vars

\* An allocation was rewritten that a local.set and a local.tee received
\* and that was read back from the local.
C28_ThroughLocals ==
  /\ JustOptimized
  /\ \E set, tee \in sets :
       /\ before.nodes[set].op # "tee"
       /\ before.nodes[tee].op = "tee"
  /\ InfluencedGets # {}
  /\ \A get \in InfluencedGets : get \notin Reach(nodes, root)

-----------------------------------------------------------------------------
(* Properties of Outlining: the sequences of a function.                    *)

\* The occurrences of a list of substrings: the substring and the start.
OccurrencesIn(substrings) ==
  {x \in (DOMAIN substrings) \X (0..Len(ostate.hashString)) :
     \E n \in DOMAIN substrings[x[1]].StartIndices :
       substrings[x[1]].StartIndices[n] = x[2]}

\* The positions of the hash string an occurrence takes.
PositionsOf(substrings, x) == Positions(x[2], substrings[x[1]].Length)

\* filterOverlaps was done.
Filtered == ostate.phase \in {"filter", "makeSequences", "outline", "reconstruct", "done"}

Disjoint(first, second) ==
  first.endIdx <= second.startIdx \/ second.endIdx <= first.startIdx

NoSeparatorInside ==
  \A k \in DOMAIN ostate.sequences :
    \A i \in Positions(ostate.sequences[k].startIdx,
                       ostate.sequences[k].endIdx - ostate.sequences[k].startIdx) :
      ostate.exprs[StartOf(ostate.func) + i + 1] # nullptr

\* The walk of a function whose sequences are sorted, do not overlap and
\* hold no separator.
WalkingWellFormed ==
  /\ ostate.phase = "reconstruct"
  /\ SortedNonOverlapping(ostate.sequences)
  /\ NoSeparatorInside

\* C30: in the walk of a function whose sequences are sorted by startIdx,
\* do not overlap and hold no separator, a separator is handed to the
\* walker in state NotInSeq only; in state InSeq or InSkipSeq seqCounter is
\* the index of a sequence, the one the position handed over lies in; and
\* when the walk ends the state is NotInSeq and seqCounter is the number
\* of the sequences.
C30_WalkWellFormed ==
  /\ []((WalkingWellFormed /\ ~AtExpression) => ostate.state = "NotInSeq")
  /\ []((WalkingWellFormed /\ AtExpression /\ StateInStep \in {"InSeq", "InSkipSeq"}) =>
          /\ ostate.seqCounter < Len(ostate.sequences)
          /\ CurrentSeq.startIdx <= ostate.at
          /\ ostate.at < CurrentSeq.endIdx)
  /\ [][(WalkingWellFormed /\ ostate'.phase = "outline") =>
          /\ ostate'.state = "NotInSeq"
          /\ ostate'.seqCounter = Len(ostate.sequences)]_vars

\* The walk of a function with two sequences or more has ended, and one of
\* the sequences is followed by a separator.
C30_WalkEnded ==
  /\ ostate.phase = "outline"
  /\ Len(ostate.sequences) >= 2
  /\ ostate.seqCounter = Len(ostate.sequences)
  /\ SortedNonOverlapping(ostate.sequences)
  /\ NoSeparatorInside
  /\ \E k \in DOMAIN ostate.sequences :
       ostate.exprs[StartOf(ostate.func) + ostate.sequences[k].endIdx + 1] = nullptr

====
